---- MODULE Spec2Model ----
(***************************************************************************)
(* Model of the secret-sharing bridge of mpc-adaptor-demo:                 *)
(*   src/src/math.rs            Lagrange coefficient, polynomial shares    *)
(*   src/src/bridge/common.rs   PortableKeyShare, hex helpers              *)
(*   src/src/bridge/core.rs     Shamir <-> additive conversions            *)
(*   src/src/bridge/cggmp.rs    reconstruct_global_params                  *)
(*                                                                         *)
(* The secp256k1 scalar field (order q, 32-byte encoding) is scaled down   *)
(* to a prime field of order P with a ScalarBytes-byte encoding.  A curve  *)
(* point k*G is represented by [pt |-> k]: the group generated by G has    *)
(* prime order, so point addition and scalar multiplication are addition   *)
(* and multiplication of the discrete logarithms modulo P.                 *)
(***************************************************************************)
EXTENDS Integers, Sequences, FiniteSets, TLC

VARIABLES
    pc,           \* position of the running scenario / operation
    secret,       \* generate_polynomial_shares: the secret (a_0)
    thr,          \* the threshold argument of the running operation
    num,          \* generate_polynomial_shares: the argument n
    coeffs,       \* generate_polynomial_shares: the local vector coeffs
    recs,         \* the PortableKeyShare records handed to the operation
    points,       \* shamir_portable_to_additive_portable: all_indices
    todo,         \* main.rs:232 loop: records of the quorum still to convert
    adds,         \* results of shamir_portable_to_additive_portable, in call order
    work,         \* additive_portable_to_shamir_portable: the local additive_shares
    shares_sent,  \* additive_portable_to_shamir_portable: the sub-share matrix
    rnd_used,     \* the random coefficients each sender drew (one row per sender)
    agg_j,        \* additive_portable_to_shamir_portable: receiver loop index j
    partials,     \* the values sum_scalar took while aggregating, per receiver
    templates,    \* update_cggmp_shares_from_portable: old_shares_templates
    opts,         \* from_portable_to_cggmp: new_public_shares, new_vss_commitments
    party_point,  \* calculate_lagrange_coefficient: the argument party_index
    force_refresh, \* run_refresh_workflow: the argument force_refresh
    disk,         \* the files the running operation reads and writes
    runs,         \* protocol runs (DKG, key refresh) started by the running call
    result        \* the value returned by the operation (Ok / Err)

vars == <<pc, secret, thr, num, coeffs, recs, points, todo, adds,
          work, shares_sent, rnd_used, agg_j, partials, templates,
          opts, party_point, force_refresh, disk, runs, result>>

(***************************************************************************)
(* Bounds of the model and scaled-down program constants.                  *)
(***************************************************************************)
\* order of the scalar field and of the group (k256::Scalar), scaled down
P == 17
\* byte width of a scalar encoding (k256::FieldBytes, 32 in the program)
ScalarBytes == 1

MaxParties == 4       \* n of a dealt sharing is at most this
MaxThreshold == 3     \* threshold arguments range over 0..MaxThreshold
MaxRand == 2          \* Scalar::random draws of a dealer: 0..MaxRand
MaxSubRand == 1       \* Scalar::random draws of a resharing sender: 0..MaxSubRand
MaxSecret == 3        \* dealt secrets range over 0..MaxSecret
MaxShares == 3        \* records handed to a conversion on free inputs
MaxIndex == 3         \* party indices of free inputs range over 0..MaxIndex
MaxShareVal == 2      \* canonical share values of free inputs: 0..MaxShareVal
MaxPoints == 3        \* length of a free all_indices list
MaxRecon == 3         \* records handed to reconstruct_global_params on free inputs
MaxAddVal == 1        \* additive share values of a resharing: 0..MaxAddVal
MaxCodecShares == 2   \* records handed to an operation in the codec scenario
MaxUpdateParties == 3 \* parties of the group whose key shares are updated
MaxChainShares == 2   \* records of the set a chain of conversions runs on
MaxFaultyShares == 3  \* records of a resharing whose x strings are free
MaxDkgParties == 4    \* n_parties of run_dkg is at most this
MaxRefreshParties == 3 \* key shares handed to run_refresh_workflow: 1..this

\* a Vec: the function f as a concrete sequence
Vec(f) == f \o <<>>

Rand == {r % P : r \in 0..MaxRand}
RandSeqs(d) == [1..d -> Rand]
SubRand == {r % P : r \in 0..MaxSubRand}
SubRandSeqs(d) == [1..d -> SubRand]

(***************************************************************************)
(* Results: anyhow::Result, and a panic (unwrap on None, slice overflow).  *)
(***************************************************************************)
Ok(v) == [ok |-> TRUE, val |-> v, err |-> ""]
Err(e) == [ok |-> FALSE, val |-> <<>>, err |-> e]
NoResult == [ok |-> FALSE, val |-> <<>>, err |-> "not called"]

\* Option<&[String]>
Some(v) == [some |-> TRUE, v |-> v]
None == [some |-> FALSE, v |-> <<>>]
NoOpts == [new_public_shares |-> None, new_vss_commitments |-> None]

(***************************************************************************)
(* Scalar field arithmetic (k256::Scalar / generic_ec::Scalar).            *)
(***************************************************************************)
FAdd(a, b) == (a + b) % P
FSub(a, b) == (a + P - b) % P
FMul(a, b) == (a * b) % P
FNeg(a) == (P - a) % P
\* Scalar::invert: None (here -1) for zero
InvertMut(a) == IF a % P = 0 THEN 0 ELSE CHOOSE b \in 1..(P - 1) : (a * b) % P = 1
Invert(a) == IF a % P = 0 THEN -1 ELSE CHOOSE b \in 1..(P - 1) : (a * b) % P = 1
\* Scalar::from(u64): every u64 is below q, so the value is kept
ScalarFromU64(k) == k % P

RECURSIVE FPow(_, _)
FPow(a, e) == IF e = 0 THEN 1 ELSE FMul(a, FPow(a, e - 1))

RECURSIVE FSum(_)
FSum(s) == IF s = <<>> THEN 0 ELSE FAdd(Head(s), FSum(Tail(s)))

(***************************************************************************)
(* Curve points (Point<E>), by discrete logarithm.                         *)
(***************************************************************************)
GenMul(s) == [pt |-> s % P]                  \* Point::generator() * s
PAdd(a, b) == [pt |-> (a.pt + b.pt) % P]     \* a + b
PMul(a, s) == [pt |-> (a.pt * s) % P]        \* a * s

(***************************************************************************)
(* Hex strings are sequences of one-character strings.                     *)
(***************************************************************************)
HexLower == <<"0", "1", "2", "3", "4", "5", "6", "7",
              "8", "9", "a", "b", "c", "d", "e", "f">>
HexUpper == <<"0", "1", "2", "3", "4", "5", "6", "7",
              "8", "9", "A", "B", "C", "D", "E", "F">>

\* value of a hex digit, -1 when the character is no hex digit
DigitVal(c) ==
    IF \E k \in 1..16 : HexLower[k] = c
    THEN (CHOOSE k \in 1..16 : HexLower[k] = c) - 1
    ELSE IF \E k \in 1..16 : HexUpper[k] = c
    THEN (CHOOSE k \in 1..16 : HexUpper[k] = c) - 1
    ELSE -1

\* common.rs: s.trim_start_matches("0x") removes every leading "0x"
RECURSIVE strip_0x(_)
strip_0x(s) ==
    IF Len(s) >= 2 /\ s[1] = "0" /\ s[2] = "x"
    THEN strip_0x(SubSeq(s, 3, Len(s)))
    ELSE s

\* common.rs: ensure_0x
ensure_0x(s) ==
    IF Len(s) >= 2 /\ s[1] = "0" /\ s[2] = "x" THEN s ELSE <<"0", "x">> \o s

\* common.rs: pad_hex
pad_hex(s) == IF Len(s) % 2 # 0 THEN <<"0">> \o s ELSE s

\* hex::decode: Err on an odd length or a character that is no hex digit
hex_decode(s) ==
    IF Len(s) % 2 # 0 \/ \E k \in 1..Len(s) : DigitVal(s[k]) < 0
    THEN Err("hex")
    ELSE Ok(Vec([k \in 1..(Len(s) \div 2) |->
                16 * DigitVal(s[2 * k - 1]) + DigitVal(s[2 * k])]))

\* hex::encode: two lowercase digits per byte
RECURSIVE hex_encode(_)
hex_encode(bytes) ==
    IF bytes = <<>> THEN <<>>
    ELSE <<HexLower[(Head(bytes) \div 16) + 1], HexLower[(Head(bytes) % 16) + 1]>>
         \o hex_encode(Tail(bytes))

\* big-endian value of a byte string
RECURSIVE BytesToInt(_)
BytesToInt(bytes) ==
    IF bytes = <<>> THEN 0
    ELSE 256 * BytesToInt(SubSeq(bytes, 1, Len(bytes) - 1)) + bytes[Len(bytes)]

RECURSIVE Pow256(_)
Pow256(e) == IF e = 0 THEN 1 ELSE 256 * Pow256(e - 1)

\* Scalar::to_bytes: fixed-width big-endian
to_bytes(v) ==
    Vec([k \in 1..ScalarBytes |-> (v \div Pow256(ScalarBytes - k)) % 256])

\* s_bytes[offset..].copy_from_slice(&bytes) on a zeroed FieldBytes
LeftPad(bytes) == [k \in 1..(ScalarBytes - Len(bytes)) |-> 0] \o bytes

\* Scalar::from_repr: None (here -1) unless the value is below the order
from_repr(s_bytes) == IF BytesToInt(s_bytes) >= P THEN -1 ELSE BytesToInt(s_bytes)

\* generic_ec Scalar::from_be_bytes_mod_order
from_be_bytes_mod_order(bytes) == BytesToInt(bytes) % P

\* hex::encode(s.to_bytes())
EncodeScalarMut(v) == IF v < 16 THEN <<HexLower[v + 1]>> ELSE hex_encode(to_bytes(v))
EncodeScalar(v) == hex_encode(to_bytes(v))

\* hex::encode(point.to_bytes(true)): compressed form, 00 for the identity
EncodePoint(p) ==
    IF p.pt = 0 THEN <<"0", "0">> ELSE <<"0", "2">> \o hex_encode(to_bytes(p.pt))

\* the point a compressed-point string stands for (Point deserialization)
DecodePoint(h) ==
    IF h = <<"0", "0">> THEN GenMul(0)
    ELSE GenMul(BytesToInt(hex_decode(SubSeq(h, 3, Len(h))).val))

RECURSIVE PSum(_)
PSum(ps) == IF ps = <<>> THEN GenMul(0) ELSE PAdd(Head(ps), PSum(Tail(ps)))

\* core.rs:64-77 and 177-187: parse a secret-share hex string into a Scalar
ParseScalarMut(x_hex) ==
    LET bytes == hex_decode(pad_hex(strip_0x(x_hex)))
    IN  IF ~bytes.ok THEN Err("hex")
        ELSE Ok(from_be_bytes_mod_order(bytes.val))

ParseScalar(x_hex) ==
    LET bytes == hex_decode(pad_hex(strip_0x(x_hex)))
    IN  IF ~bytes.ok THEN Err("hex")
        ELSE IF Len(bytes.val) > ScalarBytes THEN Err("Scalar bytes too long")
        ELSE IF from_repr(LeftPad(bytes.val)) = -1 THEN Err("Invalid scalar")
        ELSE Ok(from_repr(LeftPad(bytes.val)))

\* core.rs:136-144: the same parse without the length check; 32 - bytes.len()
\* underflows (a panic) on a longer string
ParseSubShare(share_hex) ==
    LET bytes == hex_decode(pad_hex(strip_0x(share_hex)))
    IN  IF ~bytes.ok THEN Err("hex")
        ELSE IF Len(bytes.val) > ScalarBytes THEN Err("panic")
        ELSE IF from_repr(LeftPad(bytes.val)) = -1 THEN Err("Invalid scalar")
        ELSE Ok(from_repr(LeftPad(bytes.val)))

(***************************************************************************)
(* math.rs                                                                 *)
(***************************************************************************)
\* math.rs:50-66, the loop over all_indices from position k on; -1 is the
\* panic of invert().unwrap()
RECURSIVE LagrangeLoopMut(_, _, _, _)
LagrangeLoopMut(my_x, all_indices, k, lambda) ==
    IF k > Len(all_indices) THEN lambda
    ELSE LET other_x == ScalarFromU64(all_indices[k])
         IN  IF all_indices[k] = my_x
             THEN LagrangeLoopMut(my_x, all_indices, k + 1, lambda)
             ELSE LET den == Invert(FSub(other_x, my_x))
                  IN  IF den = -1 THEN -1
                      ELSE LagrangeLoopMut(my_x, all_indices, k + 1,
                                           FMul(lambda, FMul(other_x, den)))

RECURSIVE LagrangeLoop(_, _, _, _)
LagrangeLoop(my_x, all_indices, k, lambda) ==
    IF k > Len(all_indices) THEN lambda
    ELSE LET other_x == ScalarFromU64(all_indices[k])
         IN  IF other_x = my_x
             THEN LagrangeLoop(my_x, all_indices, k + 1, lambda)
             ELSE LET den == Invert(FSub(other_x, my_x))
                  IN  IF den = -1 THEN -1
                      ELSE LagrangeLoop(my_x, all_indices, k + 1,
                                        FMul(lambda, FMul(other_x, den)))

calculate_lagrange_coefficient(party_index, all_indices) ==
    LagrangeLoop(ScalarFromU64(party_index), all_indices, 1, 1)

\* math.rs:120-124, the loop over coeffs from position k on
RECURSIVE EvalLoop(_, _, _, _, _)
EvalLoop(cs, x, k, y, x_pow) ==
    IF k > Len(cs) THEN y
    ELSE EvalLoop(cs, x, k + 1, FAdd(y, FMul(cs[k], x_pow)), FMul(x_pow, x))

\* math.rs:100: (threshold as usize).saturating_sub(1)
DegreeMut(threshold) == threshold
Degree(threshold) == IF threshold = 0 THEN 0 ELSE threshold - 1

\* math.rs:104-109: coeffs = [secret, r_1, ..., r_degree]
PolyCoeffs(s, rnd) == <<s>> \o rnd

\* math.rs:113-128: the point of the j-th share (j = 1..n)
SharePointMut(j) == j - 1
SharePoint(j) == j

\* math.rs:93-129, rnd being the degree values drawn from OsRng
generate_polynomial_shares(s, rnd, n) ==
    Vec([j \in 1..n |->
            EvalLoop(PolyCoeffs(s, rnd), ScalarFromU64(SharePoint(j)), 1, 0, 1)])

(***************************************************************************)
(* bridge/common.rs: PortableKeyShare { i, t, n, x_hex, y_hex }            *)
(***************************************************************************)
PortableKeyShare(i, t, n, x_hex, y_hex) ==
    [i |-> i, t |-> t, n |-> n, x_hex |-> x_hex, y_hex |-> y_hex]

(***************************************************************************)
(* bridge/core.rs: generate_resharing_polynomial and the two loops of      *)
(* additive_portable_to_shamir_portable                                    *)
(***************************************************************************)
\* core.rs:59-89, rnd being the values generate_polynomial_shares draws
generate_resharing_polynomial(additive_share_hex, rnd, n) ==
    LET parsed == ParseScalar(additive_share_hex)
        scalar_shares == generate_polynomial_shares(parsed.val, rnd, n)
    IN  IF ~parsed.ok THEN Err(parsed.err)
        ELSE Ok(Vec([j \in 1..n |-> EncodeScalar(scalar_shares[j])]))

\* core.rs:116: additive_shares.sort_by_key(|s| s.i), a stable sort
RECURSIVE InsertByIndex(_, _)
InsertByIndex(sorted, r) ==
    IF sorted = <<>> THEN <<r>>
    ELSE IF sorted[Len(sorted)].i <= r.i THEN Append(sorted, r)
    ELSE Append(InsertByIndex(SubSeq(sorted, 1, Len(sorted) - 1), r),
                sorted[Len(sorted)])

RECURSIVE SortLoop(_, _)
SortLoop(rest, sorted) ==
    IF rest = <<>> THEN sorted
    ELSE SortLoop(Tail(rest), InsertByIndex(sorted, Head(rest)))

sort_by_key_mut(shares) == shares
sort_by_key(shares) == SortLoop(shares, <<>>)

\* core.rs:134: the sub-share party j receives from party i
ReceivedMut(matrix, i, j) == matrix[j][i]
Received(matrix, i, j) == matrix[i][j]

RECURSIVE SumLoopMut(_, _, _, _, _)
SumLoopMut(matrix, j, i, sum_scalar, seen) ==
    IF i > Len(matrix) THEN seen
    ELSE IF i = j THEN SumLoopMut(matrix, j, i + 1, sum_scalar, Append(seen, sum_scalar))
    ELSE LET parsed == ParseSubShare(Received(matrix, i, j))
         IN  IF ~parsed.ok THEN Append(seen, -1)
             ELSE SumLoopMut(matrix, j, i + 1, FAdd(sum_scalar, parsed.val),
                             Append(seen, FAdd(sum_scalar, parsed.val)))

\* core.rs:131-146: the values sum_scalar takes for receiver j, sender by
\* sender from sender i on; <<-1>> is appended when a sub-share fails to parse
RECURSIVE SumLoop(_, _, _, _, _)
SumLoop(matrix, j, i, sum_scalar, seen) ==
    IF i > Len(matrix) THEN seen
    ELSE LET parsed == ParseSubShare(Received(matrix, i, j))
         IN  IF ~parsed.ok THEN Append(seen, -1)
             ELSE SumLoop(matrix, j, i + 1, FAdd(sum_scalar, parsed.val),
                          Append(seen, FAdd(sum_scalar, parsed.val)))

\* core.rs:121-126: the sub-share matrix, from sender i on; rnds[i] are the
\* values sender i draws
RECURSIVE GenerateLoop(_, _, _, _)
GenerateLoop(additive_shares, rnds, i, matrix) ==
    IF i > Len(additive_shares) THEN Ok(matrix)
    ELSE LET sub_shares == generate_resharing_polynomial(
                               additive_shares[i].x_hex, rnds[i], Len(additive_shares))
         IN  IF ~sub_shares.ok THEN Err(sub_shares.err)
             ELSE GenerateLoop(additive_shares, rnds, i + 1,
                               Append(matrix, sub_shares.val))

RECURSIVE AggregateLoopMut(_, _, _, _)
AggregateLoopMut(additive_shares, matrix, threshold, j) ==
    IF j > Len(additive_shares) THEN Ok(additive_shares)
    ELSE LET seen == SumLoop(matrix, j, 1, 0, <<>>)
         IN  IF seen[Len(seen)] = -1 THEN Err("Invalid scalar")
             ELSE AggregateLoopMut(
                     [additive_shares EXCEPT
                         ![j].x_hex = EncodeScalar(seen[Len(seen)]),
                         ![1].t = threshold],
                     matrix, threshold, j + 1)

\* core.rs:130-150: the records after the receivers j.. have aggregated
RECURSIVE AggregateLoop(_, _, _, _)
AggregateLoop(additive_shares, matrix, threshold, j) ==
    IF j > Len(additive_shares) THEN Ok(additive_shares)
    ELSE LET seen == SumLoop(matrix, j, 1, 0, <<>>)
         IN  IF seen[Len(seen)] = -1 THEN Err("Invalid scalar")
             ELSE AggregateLoop(
                     [additive_shares EXCEPT
                         ![j].x_hex = EncodeScalar(seen[Len(seen)]),
                         ![j].t = threshold],
                     matrix, threshold, j + 1)

\* core.rs:109-153 as one call, rnds[i] being the values drawn for the
\* polynomial of the sender at sorted position i
additive_portable_to_shamir_portable(additive_shares, threshold, rnds) ==
    LET sorted == sort_by_key(additive_shares)
        sent == GenerateLoop(sorted, rnds, 1, <<>>)
    IN  IF ~sent.ok THEN Err(sent.err)
        ELSE AggregateLoop(sorted, sent.val, threshold, 1)

(***************************************************************************)
(* bridge/core.rs: shamir_portable_to_additive_portable                    *)
(***************************************************************************)
\* core.rs:191: the evaluation point of the party with stored index i
MyIdxMut(i) == i
MyIdx(i) == i + 1

\* core.rs:201: an additive share is n-of-n
AdditiveThresholdMut(share) == share.t
AdditiveThreshold(share) == share.n

shamir_portable_to_additive_portable(share, all_indices) ==
    LET parsed == ParseScalar(share.x_hex)
        lambda == calculate_lagrange_coefficient(MyIdx(share.i), all_indices)
    IN  IF ~parsed.ok THEN Err(parsed.err)
        ELSE IF lambda = -1 THEN Err("panic")
        ELSE Ok([share EXCEPT !.x_hex = EncodeScalar(FMul(parsed.val, lambda)),
                              !.t = AdditiveThreshold(share)])

(***************************************************************************)
(* bridge/cggmp.rs: reconstruct_global_params                              *)
(***************************************************************************)
\* cggmp.rs:140-147: the (x_coord, y_point) pair of one record
XCoordMut(data) == ScalarFromU64(data.i)
XCoord(data) == ScalarFromU64(data.i + 1)
YPoint(data) == GenMul(from_be_bytes_mod_order(hex_decode(data.x_hex).val))

\* cggmp.rs:168-175: denom = prod_{j # i} (xi - xj), from position j on
RECURSIVE DenomLoopMut(_, _, _, _)
DenomLoopMut(xs, i, j, denom) ==
    IF j > Len(xs) THEN denom
    ELSE IF j = i THEN DenomLoopMut(xs, i, j + 1, denom)
    ELSE DenomLoopMut(xs, i, j + 1, FMul(denom, FSub(xs[j], xs[i])))

RECURSIVE DenomLoop(_, _, _, _)
DenomLoop(xs, i, j, denom) ==
    IF j > Len(xs) THEN denom
    ELSE IF j = i THEN DenomLoop(xs, i, j + 1, denom)
    ELSE DenomLoop(xs, i, j + 1, FMul(denom, FSub(xs[i], xs[j])))

\* cggmp.rs:186-189: poly *= (X - xj), highest slot first
PolyStepMut(poly, xj) ==
    Vec([k \in 1..Len(poly) |->
            IF k = 1 THEN FMul(xj, poly[1])
            ELSE FSub(poly[k - 1], FMul(xj, poly[k]))])

PolyStep(poly, xj) ==
    Vec([k \in 1..Len(poly) |->
            IF k = 1 THEN FMul(FNeg(xj), poly[1])
            ELSE FSub(poly[k - 1], FMul(xj, poly[k]))])

\* cggmp.rs:178-190: the basis polynomial of share i, from position j on
RECURSIVE PolyLoop(_, _, _, _)
PolyLoop(xs, i, j, poly) ==
    IF j > Len(xs) THEN poly
    ELSE IF j = i THEN PolyLoop(xs, i, j + 1, poly)
    ELSE PolyLoop(xs, i, j + 1, PolyStep(poly, xs[j]))

InitPoly(m) == Vec([k \in 1..m |-> IF k = 1 THEN 1 ELSE 0])

\* cggmp.rs:166-195: coeffs after the shares i..m have been added in
RECURSIVE CoeffLoop(_, _, _, _)
CoeffLoop(xs, ys, i, cs) ==
    IF i > Len(xs) THEN cs
    ELSE LET inv_denom == Invert(DenomLoop(xs, i, 1, 1))
             poly == PolyLoop(xs, i, 1, InitPoly(Len(xs)))
         IN  CoeffLoop(xs, ys, i + 1,
                 Vec([k \in 1..Len(xs) |->
                         PAdd(cs[k], PMul(ys[i], FMul(poly[k], inv_denom)))]))

\* cggmp.rs:210-213: y_point = sum_k coeff_k * x^k, from position k on
RECURSIVE PubLoop(_, _, _, _, _)
PubLoop(cs, x_coord, k, y_point, x_pow) ==
    IF k > Len(cs) THEN y_point
    ELSE PubLoop(cs, x_coord, k + 1,
                 PAdd(y_point, PMul(cs[k], x_pow)), FMul(x_pow, x_coord))

\* cggmp.rs:207: the coordinate of the party with index i (i = 0..n_total-1)
PubCoordMut(i) == ScalarFromU64(i)
PubCoord(i) == ScalarFromU64(i + 1)

\* cggmp.rs:203: the number of public shares
NTotalMut(refreshed_data) == Len(refreshed_data)
NTotal(refreshed_data) == IF refreshed_data = <<>> THEN 0 ELSE refreshed_data[1].n

\* cggmp.rs:150-152: the error returned for an empty input; without the
\* check refreshed_data[0] at line 153 would panic
EmptyInputErrorMut == Err("panic")
EmptyInputError == Err("No refreshed data provided")

\* cggmp.rs:153-154: n_shares < required_min_signers
InsufficientSharesMut(n_shares, required_min_signers) ==
    n_shares + 1 < required_min_signers
InsufficientShares(n_shares, required_min_signers) ==
    n_shares < required_min_signers

reconstruct_global_params(refreshed_data) ==
    LET n_shares == Len(refreshed_data)
        xs == Vec([k \in 1..n_shares |-> XCoord(refreshed_data[k])])
        ys == Vec([k \in 1..n_shares |-> YPoint(refreshed_data[k])])
        zero_point == GenMul(0)
        cs == CoeffLoop(xs, ys, 1, Vec([k \in 1..n_shares |-> zero_point]))
    IN  IF \E k \in 1..n_shares : ~hex_decode(refreshed_data[k].x_hex).ok
        THEN Err("hex")
        ELSE IF n_shares = 0 THEN EmptyInputError
        ELSE IF InsufficientShares(n_shares, refreshed_data[1].t)
        THEN Err("insufficient shares")
        ELSE IF \E i \in 1..n_shares : Invert(DenomLoop(xs, i, 1, 1)) = -1
        THEN Err("Inversion failed")
        ELSE Ok([commitments |-> Vec([k \in 1..n_shares |-> EncodePoint(cs[k])]),
                 public_shares |->
                    Vec([i \in 1..NTotal(refreshed_data) |->
                        EncodePoint(PubLoop(cs, PubCoord(i - 1), 1, zero_point, 1))])])

(***************************************************************************)
(* bridge/cggmp.rs: from_portable_to_cggmp and                             *)
(* update_cggmp_shares_from_portable.  A cggmp24 key share is the JSON     *)
(* object the code patches: core.i, core.x, core.shared_public_key,        *)
(* core.public_shares and core.vss_setup { min_signers, I }, and the aux   *)
(* data of the party, which the code never touches.                        *)
(***************************************************************************)
CggmpKeyShare(i, x, shared_public_key, public_shares, min_signers, I) ==
    [i |-> i, x |-> x, shared_public_key |-> shared_public_key,
     public_shares |-> public_shares,
     vss_setup |-> [min_signers |-> min_signers, I |-> I],
     aux |-> [party |-> i]]

\* cggmp.rs:88-92: vss_setup.commitments is written only where the field exists
PatchCommitmentsMut(vss, comm) ==
    [min_signers |-> vss.min_signers, I |-> vss.I, commitments |-> comm]

PatchCommitments(vss, comm) ==
    IF "commitments" \in DOMAIN vss THEN [vss EXCEPT !.commitments = comm] ELSE vss

\* the Lagrange coefficient at x of the j-th of the first t coordinates of I
RECURSIVE BasisAt(_, _, _, _, _)
BasisAt(I, t, j, m, x) ==
    IF m > t THEN 1
    ELSE IF m = j THEN BasisAt(I, t, j, m + 1, x)
    ELSE FMul(FMul(FSub(x, I[m]), Invert(FSub(I[j], I[m]))),
              BasisAt(I, t, j, m + 1, x))

\* the point the first t public shares interpolate to at x
InterpolatePoints(I, public_shares, t, x) ==
    PSum([j \in 1..t |-> PMul(DecodePoint(public_shares[j]), BasisAt(I, t, j, 1, x))])

\* cggmp.rs:104-105: what serde_json::from_value::<KeyShare> accepts, the
\* validation of a cggmp24 key share: x a non-zero canonical scalar, the
\* points not the identity, the party's public share equal to x*G,
\* 2 <= min_signers <= n = |I|, and the public shares lying on one
\* polynomial of degree below min_signers with the shared public key at 0
KeyShareValidMut(js) == TRUE

KeyShareValid(js) ==
    LET n == Len(js.public_shares)
        t == js.vss_setup.min_signers
        I == js.vss_setup.I
        bytes == hex_decode(js.x)
    IN  /\ bytes.ok /\ Len(bytes.val) = ScalarBytes
        /\ from_repr(bytes.val) # -1 /\ from_repr(bytes.val) # 0
        /\ js.shared_public_key # <<"0", "0">>
        /\ \A k \in 1..n : js.public_shares[k] # <<"0", "0">>
        /\ js.i < n
        /\ DecodePoint(js.public_shares[js.i + 1]) = GenMul(from_repr(bytes.val))
        /\ n >= 2 /\ 2 <= t /\ t <= n /\ Len(I) = n
        /\ InterpolatePoints(I, js.public_shares, t, 0) = DecodePoint(js.shared_public_key)
        /\ \A k \in (t + 1)..n :
              InterpolatePoints(I, js.public_shares, t, I[k]) = DecodePoint(js.public_shares[k])

\* cggmp.rs:95-99: the shared public key is overwritten by the first commitment
PatchPublicKey(core, comm) == [core EXCEPT !.shared_public_key = comm[1]]

\* cggmp.rs:60-108
from_portable_to_cggmp(template_share, refreshed, new_public_shares, new_vss_commitments) ==
    LET with_x == [template_share EXCEPT !.x = refreshed.x_hex]
        with_ps ==
            IF new_public_shares.some
            THEN [with_x EXCEPT !.public_shares = new_public_shares.v]
            ELSE with_x
        patched ==
            IF new_vss_commitments.some /\ new_vss_commitments.v # <<>>
            THEN PatchPublicKey(
                    [with_ps EXCEPT !.vss_setup = PatchCommitments(@, new_vss_commitments.v)],
                    new_vss_commitments.v)
            ELSE with_ps
    IN  IF KeyShareValid(patched) THEN Ok(patched)
        ELSE Err("Failed to deserialize patched KeyShare")

\* cggmp.rs:236-237: the records that have index party_id; collecting into
\* the HashMap keeps the last of them
Matching(refreshed_data, party_id) ==
    {k \in 1..Len(refreshed_data) : refreshed_data[k].i = party_id}

Lookup(refreshed_data, party_id) ==
    refreshed_data[CHOOSE k \in Matching(refreshed_data, party_id) :
                       \A m \in Matching(refreshed_data, party_id) : m <= k]

\* cggmp.rs:250: format!("Missing refreshed data for party {}", party_id)
MissingMessage ==
    <<"Missing refreshed data for party 0", "Missing refreshed data for party 1",
      "Missing refreshed data for party 2", "Missing refreshed data for party 3",
      "Missing refreshed data for party 4", "Missing refreshed data for party 5">>

MissingRefreshedMut(party_id) == Ok(<<>>)
MissingRefreshed(party_id) == Err(MissingMessage[party_id + 1])

\* cggmp.rs:239-252: the loop over the templates from position k on
RECURSIVE UpdateLoop(_, _, _, _, _)
UpdateLoop(old_shares_templates, refreshed_data, params, k, updated) ==
    IF k > Len(old_shares_templates) THEN Ok(updated)
    ELSE LET party_id == old_shares_templates[k].i
         IN  IF Matching(refreshed_data, party_id) = {}
             THEN MissingRefreshed(party_id)
             ELSE LET updated_share ==
                          from_portable_to_cggmp(old_shares_templates[k],
                              Lookup(refreshed_data, party_id),
                              Some(params.public_shares), Some(params.commitments))
                  IN  IF ~updated_share.ok THEN Err(updated_share.err)
                      ELSE UpdateLoop(old_shares_templates, refreshed_data, params,
                                      k + 1, Append(updated, updated_share.val))

\* cggmp.rs:223-255
update_cggmp_shares_from_portable(old_shares_templates, refreshed_data) ==
    LET params == reconstruct_global_params(refreshed_data)
    IN  IF ~params.ok THEN Err(params.err)
        ELSE UpdateLoop(old_shares_templates, refreshed_data, params.val, 1, <<>>)

(***************************************************************************)
(* simulation/cggmp.rs: run_dkg and the files of the data directory.  The  *)
(* two files of a party (incomplete_key_share_party_i.json and             *)
(* aux_info_party_i.json) are one entry: missing, unparsable, or the key   *)
(* share they hold, of which the model keeps the party index, min_signers  *)
(* and the size of the participant list.                                   *)
(***************************************************************************)
MissingFile == [kind |-> "missing", i |-> 0, t |-> 0, n |-> 0]
UnparsableFile == [kind |-> "unparsable", i |-> 0, t |-> 0, n |-> 0]
KeyShareFile(i, t, n) == [kind |-> "share", i |-> i, t |-> t, n |-> n]

\* simulation/cggmp.rs:159-168
check_dkg_files_exist(files, n) ==
    \A i \in 0..(n - 1) : i \in DOMAIN files /\ files[i].kind # "missing"

\* simulation/cggmp.rs:147-156: Err unless the files of the party parse
mock_run_cggmp_dkg(files, party_id) ==
    IF files[party_id].kind = "share" THEN Ok(files[party_id]) ELSE Err("load")

\* simulation/cggmp.rs:182-194: the loop over the parties from i on; the
\* first failure ends it with load_success = false
RECURSIVE LoadLoop(_, _, _, _)
LoadLoop(files, n_parties, i, loaded_shares) ==
    IF i >= n_parties THEN [load_success |-> TRUE, loaded_shares |-> loaded_shares]
    ELSE IF ~mock_run_cggmp_dkg(files, i).ok
    THEN [load_success |-> FALSE, loaded_shares |-> loaded_shares]
    ELSE LoadLoop(files, n_parties, i + 1,
                  Append(loaded_shares, mock_run_cggmp_dkg(files, i).val))

\* simulation/cggmp.rs:212: fs::remove_dir_all("data")
remove_dir_all(files) == [i \in DOMAIN files |-> MissingFile]

\* simulation/cggmp.rs:63-145: the files of the parties 0..n-1 are written,
\* the other files stay; the shares come back in party order
run_dkg_and_save(files, n, t) ==
    [disk |-> [i \in DOMAIN files |-> IF i < n THEN KeyShareFile(i, t, n) ELSE files[i]],
     shares |-> Vec([k \in 1..n |-> KeyShareFile(k - 1, t, n)])]

\* simulation/cggmp.rs:196-217: the threshold compared with the requested
\* one is the t of the first loaded share
LoadedThreshold(loaded_shares) == loaded_shares[1].t

\* simulation/cggmp.rs:170-234: the returned value, the files left behind
\* and the number of DKG runs
run_dkg(files, n_parties, threshold) ==
    LET loaded == IF check_dkg_files_exist(files, n_parties)
                  THEN LoadLoop(files, n_parties, 0, <<>>)
                  ELSE [load_success |-> FALSE, loaded_shares |-> <<>>]
        checked == loaded.load_success /\ loaded.loaded_shares # <<>>
                      /\ LoadedThreshold(loaded.loaded_shares) > 0
        matches == checked /\ LoadedThreshold(loaded.loaded_shares) = threshold
        should_run_dkg == ~matches
        kept == IF checked /\ ~matches THEN remove_dir_all(files) ELSE files
        dkg == run_dkg_and_save(kept, n_parties, threshold)
        cggmp_shares == IF should_run_dkg THEN dkg.shares ELSE loaded.loaded_shares
    IN  [disk |-> IF should_run_dkg THEN dkg.disk ELSE files,
         runs |-> IF should_run_dkg THEN 1 ELSE 0,
         result |-> IF cggmp_shares = <<>> THEN Err("no key shares")
                    ELSE Ok(sort_by_key(cggmp_shares))]

(***************************************************************************)
(* simulation/synedrion.rs: run_refresh_workflow and its cache file.  The  *)
(* file is missing, unparsable, or holds a map of updated key shares; a    *)
(* key share is its owner and the value the refresh left it with.          *)
(***************************************************************************)
NoCache == [kind |-> "missing", shares |-> <<>>]
UnparsableCache == [kind |-> "unparsable", shares |-> <<>>]
CacheOf(updated_shares) == [kind |-> "cache", shares |-> updated_shares]

\* the outcomes of the external steps of one call: the refresh protocol and
\* the conversions succeed or fail, the write of the cache file succeeds or
\* fails
RefreshOutcomes == {"ok", "refresh_fails", "write_fails"}

\* simulation/synedrion.rs:91-178: the changes of the parties 0..n-1 drawn
\* with randomness r, none and no protocol run for an empty list
run_synedrion_refresh_simulation(shares, outcome, r) ==
    IF Len(shares) = 0 THEN [ran |-> 0, result |-> Ok(<<>>)]
    ELSE IF outcome = "refresh_fails" THEN [ran |-> 1, result |-> Err("Simulation failed")]
    ELSE [ran |-> 1, result |-> Ok(Vec([k \in 1..Len(shares) |-> r]))]

\* simulation/synedrion.rs:324-335: the shares whose owner has a change
RECURSIVE ApplyChanges(_, _, _)
ApplyChanges(synedrion_data, refreshed_changes, k) ==
    IF k > Len(synedrion_data) THEN <<>>
    ELSE LET owner == synedrion_data[k].i
             rest == ApplyChanges(synedrion_data, refreshed_changes, k + 1)
         IN  IF owner + 1 \in DOMAIN refreshed_changes
             THEN <<[i |-> owner, x |-> refreshed_changes[owner + 1]]>> \o rest
             ELSE rest

\* simulation/synedrion.rs:300: the cache is read
CacheConsultedMut(file, force) == file.kind # "missing"
CacheConsulted(file, force) == file.kind # "missing" /\ ~force

\* simulation/synedrion.rs:278-341: the returned value, the cache file left
\* behind and the number of protocol runs
run_refresh_workflow(file, synedrion_data, force, outcome, r) ==
    LET cache_loaded == CacheConsulted(file, force) /\ file.kind = "cache"
        refreshed == run_synedrion_refresh_simulation(synedrion_data, outcome, r)
        updated_shares == ApplyChanges(synedrion_data, refreshed.result.val, 1)
    IN  IF cache_loaded
        THEN [disk |-> file, runs |-> 0, result |-> Ok(file.shares)]
        ELSE IF ~refreshed.result.ok
        THEN [disk |-> file, runs |-> refreshed.ran, result |-> refreshed.result]
        ELSE IF outcome = "write_fails"
        THEN [disk |-> file, runs |-> refreshed.ran, result |-> Err("write")]
        ELSE [disk |-> CacheOf(updated_shares), runs |-> refreshed.ran,
              result |-> Ok(updated_shares)]

(***************************************************************************)
(* Helpers of the scenarios.                                               *)
(***************************************************************************)
\* injective sequences over S (a choice of records, in any order)
InjSeqs(S) ==
    UNION {{q \in [1..m -> S] : \A a, b \in 1..m : a # b => q[a] # q[b]} :
           m \in 0..Cardinality(S)}

\* the elements of a set of integers in ascending order
RECURSIVE Ascending(_)
Ascending(S) ==
    IF S = {} THEN <<>>
    ELSE LET lo == CHOOSE a \in S : \A b \in S : a <= b
         IN  <<lo>> \o Ascending(S \ {lo})

(***************************************************************************)
(* Scenario 1: a dealer shares a secret with generate_polynomial_shares    *)
(* into records; then either a signing quorum converts its shares with     *)
(* shamir_portable_to_additive_portable (main.rs:224-243), or a choice of  *)
(* the records goes to reconstruct_global_params.                          *)
(***************************************************************************)
Init ==
    /\ pc = "init"
    /\ secret = 0
    /\ thr = 0
    /\ num = 0
    /\ coeffs = <<>>
    /\ recs = <<>>
    /\ points = <<>>
    /\ todo = <<>>
    /\ adds = <<>>
    /\ work = <<>>
    /\ shares_sent = <<>>
    /\ rnd_used = <<>>
    /\ agg_j = 0
    /\ partials = <<>>
    /\ templates = <<>>
    /\ opts = NoOpts
    /\ party_point = 0
    /\ force_refresh = FALSE
    /\ disk = <<>>
    /\ runs = 0
    /\ result = NoResult

Deal(s, t, n, rnd) ==
    /\ pc = "init"
    /\ secret' = s
    /\ thr' = t
    /\ num' = n
    /\ coeffs' = PolyCoeffs(s, rnd)
    /\ result' = Ok(generate_polynomial_shares(s, rnd, n))
    /\ recs' = [j \in 1..n |->
                  PortableKeyShare(j - 1, t, n,
                      EncodeScalar(generate_polynomial_shares(s, rnd, n)[j]),
                      EncodePoint(GenMul(s)))]
    /\ pc' = "dealt"
    /\ UNCHANGED <<points, todo, adds, work, shares_sent, rnd_used, agg_j, partials,
                   templates,
                   opts, party_point, force_refresh, disk, runs>>

\* main.rs:224-229: the quorum and its coordinates, in ascending key order
SelectQuorum(S) ==
    /\ pc = "dealt"
    /\ S # {}
    /\ points' = [k \in 1..Cardinality(S) |-> Ascending(S)[k] + 1]
    /\ todo' = [k \in 1..Cardinality(S) |-> recs[Ascending(S)[k] + 1]]
    /\ adds' = <<>>
    /\ pc' = "converting"
    /\ UNCHANGED <<secret, thr, num, coeffs, recs, work, shares_sent, rnd_used, agg_j,
                   partials, result, templates,
                   opts, party_point, force_refresh, disk, runs>>

\* main.rs:232-243: the next member of the quorum converts its own share
ConvertNext ==
    /\ pc = "converting"
    /\ todo # <<>>
    /\ LET r == shamir_portable_to_additive_portable(Head(todo), points)
       IN  IF r.ok
           THEN /\ adds' = Append(adds, r.val)
                /\ todo' = Tail(todo)
                /\ pc' = IF Tail(todo) = <<>> THEN "converted" ELSE "converting"
                /\ result' = result
           ELSE /\ result' = r
                /\ pc' = "failed"
                /\ UNCHANGED <<adds, todo>>
    /\ UNCHANGED <<secret, thr, num, coeffs, recs, points, work, shares_sent, rnd_used,
                   agg_j, partials, templates,
                   opts, party_point, force_refresh, disk, runs>>

\* reconstruct_global_params on a choice q of the dealt records
ReconstructDealt(q) ==
    /\ pc = "dealt"
    /\ todo' = [k \in 1..Len(q) |-> recs[q[k]]]
    /\ result' = reconstruct_global_params([k \in 1..Len(q) |-> recs[q[k]]])
    /\ pc' = "reconstructed"
    /\ UNCHANGED <<secret, thr, num, coeffs, recs, points, adds, work, shares_sent,
                   rnd_used, agg_j, partials, templates,
                   opts, party_point, force_refresh, disk, runs>>

NextDeal ==
    \/ \E s \in 0..MaxSecret, t \in 0..MaxThreshold, n \in 0..MaxParties :
          \E rnd \in RandSeqs(Degree(t)) : Deal(s % P, t, n, rnd)
    \/ \E S \in SUBSET (0..(Len(recs) - 1)) : SelectQuorum(S)
    \/ ConvertNext
    \/ \E q \in InjSeqs(1..Len(recs)) : ReconstructDealt(q)

SpecDeal == Init /\ [][NextDeal]_vars

(***************************************************************************)
(* Free inputs.  A secret-share string is the fixed-width encoding of a    *)
(* small value, or one of a few strings the codec has to treat specially.  *)
(***************************************************************************)
CanonicalInputs == {EncodeScalar(v % P) : v \in 0..MaxShareVal}
IrregularInputs ==
    { <<"0", "x", "0", "2">>,      \* 0x prefix
      <<"3">>,                     \* odd length
      <<"0", "B">>,                \* upper case
      <<"f", "f">>,                \* not below the group order
      <<"0", "0", "0", "1">>,      \* longer than the scalar width
      <<"g", "1">> }               \* no hex string
XInputs == CanonicalInputs \cup IrregularInputs

\* the shared public key carried by free input records
SomeY == EncodePoint(GenMul(5))

\* sequences over S of length at most m
SeqsUpTo(S, m) == UNION {[1..k -> S] : k \in 0..m}

(***************************************************************************)
(* Scenario 2: shamir_portable_to_additive_portable on a free record and   *)
(* a free all_indices list (repeated coordinates, own coordinate absent).  *)
(***************************************************************************)
InitConvert ==
    /\ pc = "conv_input"
    /\ secret = 0
    /\ thr = 0
    /\ num = 0
    /\ coeffs = <<>>
    /\ \E i \in 0..MaxIndex, t \in 0..MaxThreshold, n \in {1, MaxParties},
          x \in XInputs :
          recs = <<PortableKeyShare(i, t, n, x, SomeY)>>
    /\ points \in SeqsUpTo(1..(MaxIndex + 1), MaxPoints)
    /\ todo = <<>>
    /\ adds = <<>>
    /\ work = <<>>
    /\ shares_sent = <<>>
    /\ rnd_used = <<>>
    /\ agg_j = 0
    /\ partials = <<>>
    /\ templates = <<>>
    /\ opts = NoOpts
    /\ party_point = 0
    /\ force_refresh = FALSE
    /\ disk = <<>>
    /\ runs = 0
    /\ result = NoResult

ShamirToAdditive ==
    /\ pc = "conv_input"
    /\ result' = shamir_portable_to_additive_portable(recs[1], points)
    /\ pc' = "conv_done"
    /\ UNCHANGED <<secret, thr, num, coeffs, recs, points, todo, adds,
                   work, shares_sent, rnd_used, agg_j, partials, templates,
                   opts, party_point, force_refresh, disk, runs>>

NextConvert == ShamirToAdditive

SpecConvert == InitConvert /\ [][NextConvert]_vars

(***************************************************************************)
(* Scenario 3: additive_portable_to_shamir_portable on free additive       *)
(* records with unique indices, in any order, dense or with gaps.  The     *)
(* operation runs loop by loop: sort, one sender's sub-shares at a time,   *)
(* then one receiver's aggregation at a time.                              *)
(***************************************************************************)
AdditiveXInputs == {EncodeScalar(v % P) : v \in 0..MaxAddVal}

AdditiveInputs ==
    {q \in InjSeqs(0..MaxIndex) : Len(q) <= MaxShares}

\* the n field of the records of a group holding the indices of q
GroupSize(q) ==
    IF q = <<>> THEN 0
    ELSE 1 + CHOOSE a \in {q[k] : k \in 1..Len(q)} :
                 \A b \in {q[k] : k \in 1..Len(q)} : b <= a

InitReshare ==
    /\ pc = "rs_input"
    /\ secret = 0
    /\ thr \in 0..MaxThreshold
    /\ num = 0
    /\ coeffs = <<>>
    /\ \E q \in AdditiveInputs :
          \E xs \in [1..Len(q) -> AdditiveXInputs] :
             recs = [k \in 1..Len(q) |->
                       PortableKeyShare(q[k], GroupSize(q), GroupSize(q),
                                        xs[k], SomeY)]
    /\ points = <<>>
    /\ todo = <<>>
    /\ adds = <<>>
    /\ work = <<>>
    /\ shares_sent = <<>>
    /\ rnd_used = <<>>
    /\ agg_j = 0
    /\ partials = <<>>
    /\ templates = <<>>
    /\ opts = NoOpts
    /\ party_point = 0
    /\ force_refresh = FALSE
    /\ disk = <<>>
    /\ runs = 0
    /\ result = NoResult

\* core.rs:113-118: n, the sort, the empty matrix; with no record both loops
\* are skipped and the empty vector is returned
ReshareStart ==
    /\ pc = "rs_input"
    /\ work' = sort_by_key(recs)
    /\ shares_sent' = <<>>
    /\ rnd_used' = <<>>
    /\ agg_j' = 0
    /\ partials' = <<>>
    /\ IF recs = <<>>
       THEN pc' = "rs_done" /\ result' = Ok(<<>>)
       ELSE pc' = "rs_gen" /\ result' = result
    /\ UNCHANGED <<secret, thr, num, coeffs, recs, points, todo, adds, templates,
                   opts, party_point, force_refresh, disk, runs>>

\* core.rs:119-126: sender i = Len(shares_sent) + 1 generates its sub-shares
ReshareGenerate(rnd) ==
    /\ pc = "rs_gen"
    /\ LET i == Len(shares_sent) + 1
           sub_shares == generate_resharing_polynomial(work[i].x_hex, rnd, Len(work))
       IN  IF sub_shares.ok
           THEN /\ shares_sent' = Append(shares_sent, sub_shares.val)
                /\ rnd_used' = Append(rnd_used, rnd)
                /\ pc' = IF i = Len(work) THEN "rs_agg" ELSE "rs_gen"
                /\ result' = result
           ELSE /\ result' = Err(sub_shares.err)
                /\ pc' = "rs_failed"
                /\ UNCHANGED <<shares_sent, rnd_used>>
    /\ UNCHANGED <<secret, thr, num, coeffs, recs, points, todo, adds, work,
                   agg_j, partials, templates,
                   opts, party_point, force_refresh, disk, runs>>

\* core.rs:130-150: receiver j = agg_j + 1 sums what it received and its
\* record is overwritten; after the last receiver the vector is returned
ReshareAggregate ==
    /\ pc = "rs_agg"
    /\ LET j == agg_j + 1
           seen == SumLoop(shares_sent, j, 1, 0, <<>>)
           updated == [work EXCEPT ![j].x_hex = EncodeScalar(seen[Len(seen)]),
                                   ![j].t = thr]
       IN  IF seen[Len(seen)] = -1
           THEN /\ result' = Err("Invalid scalar")
                /\ pc' = "rs_failed"
                /\ UNCHANGED <<work, agg_j, partials>>
           ELSE /\ work' = updated
                /\ agg_j' = j
                /\ partials' = Append(partials, seen)
                /\ IF j = Len(work)
                   THEN pc' = "rs_done" /\ result' = Ok(updated)
                   ELSE pc' = "rs_agg" /\ result' = result
    /\ UNCHANGED <<secret, thr, num, coeffs, recs, points, todo, adds,
                   shares_sent, rnd_used, templates,
                   opts, party_point, force_refresh, disk, runs>>

NextReshare ==
    \/ ReshareStart
    \/ \E rnd \in SubRandSeqs(Degree(thr)) : ReshareGenerate(rnd)
    \/ ReshareAggregate

SpecReshare == InitReshare /\ [][NextReshare]_vars

(***************************************************************************)
(* Scenario 4: reconstruct_global_params on free records: any indices     *)
(* (repeated, with gaps), any t and n in the first record, shares that     *)
(* need not lie on one polynomial.                                         *)
(***************************************************************************)
ReconXInputs == CanonicalInputs \cup {<<"f", "f">>, <<"0", "x", "0", "2">>}

InitRecon ==
    /\ pc = "rc_input"
    /\ secret = 0
    /\ thr = 0
    /\ num = 0
    /\ coeffs = <<>>
    /\ \E m \in 0..MaxRecon, t \in 0..MaxThreshold, n \in 0..MaxParties :
          \E q \in [1..m -> 0..MaxIndex], xs \in [1..m -> ReconXInputs] :
             recs = [k \in 1..m |->
                       IF k = 1
                       THEN PortableKeyShare(q[k], t, n, xs[k], SomeY)
                       ELSE PortableKeyShare(q[k], MaxThreshold, MaxParties,
                                             xs[k], SomeY)]
    /\ points = <<>>
    /\ todo = <<>>
    /\ adds = <<>>
    /\ work = <<>>
    /\ shares_sent = <<>>
    /\ rnd_used = <<>>
    /\ agg_j = 0
    /\ partials = <<>>
    /\ templates = <<>>
    /\ opts = NoOpts
    /\ party_point = 0
    /\ force_refresh = FALSE
    /\ disk = <<>>
    /\ runs = 0
    /\ result = NoResult

ReconstructFree ==
    /\ pc = "rc_input"
    /\ result' = reconstruct_global_params(recs)
    /\ pc' = "rc_done"
    /\ UNCHANGED <<secret, thr, num, coeffs, recs, points, todo, adds,
                   work, shares_sent, rnd_used, agg_j, partials, templates,
                   opts, party_point, force_refresh, disk, runs>>

NextRecon == ReconstructFree

SpecRecon == InitRecon /\ [][NextRecon]_vars

(***************************************************************************)
(* Scenario 5: one or two records whose x_hex is any of the input strings  *)
(* (canonical, prefixed, odd, upper case, not canonical, too long, no hex) *)
(* go through one of the operations that read a secret-share string.       *)
(***************************************************************************)
CodecIndices == {q \in InjSeqs(0..(MaxCodecShares - 1)) : Len(q) >= 1}
CodecThresholds == {1, 2}

InitCodec ==
    /\ pc = "cd_input"
    /\ secret = 0
    /\ thr \in CodecThresholds
    /\ num = 0
    /\ coeffs = <<>>
    /\ \E q \in CodecIndices :
          /\ \E xs \in [1..Len(q) -> XInputs] :
                recs = [k \in 1..Len(q) |->
                          PortableKeyShare(q[k], thr, Len(q), xs[k], SomeY)]
          /\ points = [k \in 1..Len(q) |-> Ascending({q[a] : a \in 1..Len(q)})[k] + 1]
    /\ todo = <<>>
    /\ adds = <<>>
    /\ work = <<>>
    /\ shares_sent = <<>>
    /\ rnd_used = <<>>
    /\ agg_j = 0
    /\ partials = <<>>
    /\ templates = <<>>
    /\ opts = NoOpts
    /\ party_point = 0
    /\ force_refresh = FALSE
    /\ disk = <<>>
    /\ runs = 0
    /\ result = NoResult

\* shamir_portable_to_additive_portable on the first record
CodecShamirToAdditive ==
    /\ pc = "cd_input"
    /\ result' = shamir_portable_to_additive_portable(recs[1], points)
    /\ pc' = "cd_conv"
    /\ UNCHANGED <<secret, thr, num, coeffs, recs, points, todo, adds,
                   work, shares_sent, rnd_used, agg_j, partials, templates,
                   opts, party_point, force_refresh, disk, runs>>

\* generate_resharing_polynomial on the x_hex of the first record
CodecSubShares(rnd) ==
    /\ pc = "cd_input"
    /\ result' = generate_resharing_polynomial(recs[1].x_hex, rnd, Len(recs))
    /\ rnd_used' = <<rnd>>
    /\ pc' = "cd_sub"
    /\ UNCHANGED <<secret, thr, num, coeffs, recs, points, todo, adds,
                   work, shares_sent, agg_j, partials, templates,
                   opts, party_point, force_refresh, disk, runs>>

\* additive_portable_to_shamir_portable on all the records
CodecReshare(rnds) ==
    /\ pc = "cd_input"
    /\ result' = additive_portable_to_shamir_portable(recs, thr, rnds)
    /\ rnd_used' = rnds
    /\ pc' = "cd_reshare"
    /\ UNCHANGED <<secret, thr, num, coeffs, recs, points, todo, adds,
                   work, shares_sent, agg_j, partials, templates,
                   opts, party_point, force_refresh, disk, runs>>

\* reconstruct_global_params on all the records
CodecReconstruct ==
    /\ pc = "cd_input"
    /\ result' = reconstruct_global_params(recs)
    /\ pc' = "cd_recon"
    /\ UNCHANGED <<secret, thr, num, coeffs, recs, points, todo, adds,
                   work, shares_sent, rnd_used, agg_j, partials, templates,
                   opts, party_point, force_refresh, disk, runs>>

NextCodec ==
    \/ CodecShamirToAdditive
    \/ \E rnd \in SubRandSeqs(Degree(thr)) : CodecSubShares(rnd)
    \/ \E rnds \in [1..Len(recs) -> SubRandSeqs(Degree(thr))] : CodecReshare(rnds)
    \/ CodecReconstruct

SpecCodec == InitCodec /\ [][NextCodec]_vars

(***************************************************************************)
(* Scenario 6: scenario 1 on the worked example of the toy field: the      *)
(* secret 7 dealt with t = 3, n = 5 and random coefficients out of {2, 5}, *)
(* then a quorum converting its shares.                                    *)
(***************************************************************************)
VectorSecrets == {7}
VectorCoefficients == {2, 5}
VectorSizes == {<<3, 5>>}

NextVector ==
    \/ \E s \in VectorSecrets, tn \in VectorSizes :
          \E rnd \in [1..Degree(tn[1]) -> VectorCoefficients] :
             Deal(s, tn[1], tn[2], rnd)
    \/ \E S \in SUBSET (0..(Len(recs) - 1)) : SelectQuorum(S)
    \/ ConvertNext

SpecVector == Init /\ [][NextVector]_vars

(***************************************************************************)
(* Scenario 7: update_cggmp_shares_from_portable.  The templates are key   *)
(* shares of an n-party group for the key 1*G (old polynomial 1 + x + ..), *)
(* any choice of them in any order; the refreshed records carry any        *)
(* indices of the group (missing ones, repeated ones) and any share values *)
(* and, as y, the group's public key.                                      *)
(***************************************************************************)
\* the old sharing of the group: secret 1, every random coefficient 1
OldShares(n, t) == generate_polynomial_shares(1, [k \in 1..Degree(t) |-> 1], n)

OldTemplate(i, n, t) ==
    CggmpKeyShare(i, EncodeScalar(OldShares(n, t)[i + 1]), EncodePoint(GenMul(1)),
                  [k \in 1..n |-> EncodePoint(GenMul(OldShares(n, t)[k]))],
                  t, [k \in 1..n |-> k])

UpdateXInputs == {EncodeScalar(v % P) : v \in 1..MaxShareVal}

InitUpdate ==
    /\ pc = "up_input"
    /\ secret = 1
    /\ num \in 2..MaxUpdateParties
    /\ thr \in 2..num
    /\ coeffs = <<>>
    /\ \E q \in InjSeqs(0..(num - 1)) :
          templates = [k \in 1..Len(q) |-> OldTemplate(q[k], num, thr)]
    /\ \E m \in 0..num, t \in 2..num :
          \E q \in [1..m -> 0..(num - 1)], xs \in [1..m -> UpdateXInputs] :
             recs = [k \in 1..m |->
                       PortableKeyShare(q[k], t, num, xs[k], EncodePoint(GenMul(1)))]
    /\ points = <<>>
    /\ todo = <<>>
    /\ adds = <<>>
    /\ work = <<>>
    /\ shares_sent = <<>>
    /\ rnd_used = <<>>
    /\ agg_j = 0
    /\ partials = <<>>
    /\ opts = NoOpts
    /\ party_point = 0
    /\ force_refresh = FALSE
    /\ disk = <<>>
    /\ runs = 0
    /\ result = NoResult

UpdateShares ==
    /\ pc = "up_input"
    /\ result' = update_cggmp_shares_from_portable(templates, recs)
    /\ pc' = "up_done"
    /\ UNCHANGED <<secret, thr, num, coeffs, recs, points, todo, adds,
                   work, shares_sent, rnd_used, agg_j, partials, templates,
                   opts, party_point, force_refresh, disk, runs>>

NextUpdate == UpdateShares

SpecUpdate == InitUpdate /\ [][NextUpdate]_vars

(***************************************************************************)
(* Scenario 8: a set of records that agree on n, y and t goes through a    *)
(* chain of conversions of the whole set, in any order and any number:     *)
(* shamir_portable_to_additive_portable on each record in turn with one    *)
(* common point list (as main.rs:232-243 does), and                        *)
(* additive_portable_to_shamir_portable on the set.  A failing call ends   *)
(* the chain.  thr is the threshold of the last resharing (0: none yet),   *)
(* points the point list of the record-by-record conversion under way.     *)
(***************************************************************************)
ChainIndices == {q \in InjSeqs(0..(MaxChainShares - 1)) : Len(q) >= 1}
ChainThresholds == 1..MaxChainShares
\* one point per record, repeated points included
ChainPointLists(rs) == [1..Len(rs) -> 1..MaxChainShares]

InitChain ==
    /\ pc = "ch_ready"
    /\ secret = 0
    /\ thr = 0
    /\ num = 0
    /\ coeffs = <<>>
    /\ \E q \in ChainIndices, t \in ChainThresholds, n \in 0..1 :
          \E xs \in [1..Len(q) -> XInputs] :
             recs = [k \in 1..Len(q) |->
                       PortableKeyShare(q[k], t, Len(q) + n, xs[k], SomeY)]
    /\ points = <<>>
    /\ todo = <<>>
    /\ adds = <<>>
    /\ work = <<>>
    /\ shares_sent = <<>>
    /\ rnd_used = <<>>
    /\ agg_j = 0
    /\ partials = <<>>
    /\ templates = <<>>
    /\ opts = NoOpts
    /\ party_point = 0
    /\ force_refresh = FALSE
    /\ disk = <<>>
    /\ runs = 0
    /\ result = NoResult

\* the parties agree on the point list and start converting their records
ChainBegin(all_indices) ==
    /\ pc = "ch_ready"
    /\ points' = all_indices
    /\ todo' = recs
    /\ adds' = <<>>
    /\ pc' = "ch_converting"
    /\ UNCHANGED <<secret, thr, num, coeffs, recs, work, shares_sent,
                   rnd_used, agg_j, partials, templates, result,
                   opts, party_point, force_refresh, disk, runs>>

\* shamir_portable_to_additive_portable on the next record of the set; the
\* set is replaced by the converted records when the last one is done
ChainConvertNext ==
    /\ pc = "ch_converting"
    /\ todo # <<>>
    /\ LET converted == shamir_portable_to_additive_portable(Head(todo), points)
       IN  /\ result' = converted
           /\ IF ~converted.ok
                 THEN /\ pc' = "ch_failed"
                      /\ UNCHANGED <<recs, points, todo, adds>>
                 ELSE /\ adds' = Append(adds, converted.val)
                      /\ todo' = Tail(todo)
                      /\ IF Tail(todo) = <<>>
                            THEN /\ recs' = Append(adds, converted.val)
                                 /\ points' = <<>>
                                 /\ pc' = "ch_ready"
                            ELSE UNCHANGED <<recs, points, pc>>
    /\ UNCHANGED <<secret, thr, num, coeffs, work, shares_sent,
                   rnd_used, agg_j, partials, templates,
                   opts, party_point, force_refresh, disk, runs>>

\* additive_portable_to_shamir_portable on the set
ChainReshare(threshold, rnds) ==
    /\ pc = "ch_ready"
    /\ LET reshared == additive_portable_to_shamir_portable(recs, threshold, rnds)
       IN  /\ result' = reshared
           /\ IF reshared.ok
                 THEN recs' = reshared.val /\ pc' = "ch_ready"
                 ELSE pc' = "ch_failed" /\ UNCHANGED recs
    /\ thr' = threshold
    /\ todo' = <<>>
    /\ adds' = <<>>
    /\ UNCHANGED <<secret, num, coeffs, points, work, shares_sent,
                   rnd_used, agg_j, partials, templates,
                   opts, party_point, force_refresh, disk, runs>>

NextChain ==
    \/ \E all_indices \in ChainPointLists(recs) : ChainBegin(all_indices)
    \/ ChainConvertNext
    \/ \E threshold \in ChainThresholds :
          \E rnds \in [1..Len(recs) -> SubRandSeqs(Degree(threshold))] :
             ChainReshare(threshold, rnds)

SpecChain == InitChain /\ [][NextChain]_vars

(***************************************************************************)
(* Scenario 9: scenario 3 (the loops of                                    *)
(* additive_portable_to_shamir_portable, step by step) on records with     *)
(* the indices 0..n-1 in any order whose x strings are free: regular, or   *)
(* one of the strings the codec has to treat specially.                    *)
(***************************************************************************)
FaultyIndices ==
    {q \in InjSeqs(0..(MaxFaultyShares - 1)) :
        Len(q) >= 1 /\ {q[k] : k \in 1..Len(q)} = 0..(Len(q) - 1)}
FaultyThresholds == {1, 2}

InitFaulty ==
    /\ pc = "rs_input"
    /\ secret = 0
    /\ thr \in FaultyThresholds
    /\ num = 0
    /\ coeffs = <<>>
    /\ \E q \in FaultyIndices :
          \E xs \in [1..Len(q) -> XInputs] :
             recs = [k \in 1..Len(q) |->
                       PortableKeyShare(q[k], Len(q), Len(q), xs[k], SomeY)]
    /\ points = <<>>
    /\ todo = <<>>
    /\ adds = <<>>
    /\ work = <<>>
    /\ shares_sent = <<>>
    /\ rnd_used = <<>>
    /\ agg_j = 0
    /\ partials = <<>>
    /\ templates = <<>>
    /\ opts = NoOpts
    /\ party_point = 0
    /\ force_refresh = FALSE
    /\ disk = <<>>
    /\ runs = 0
    /\ result = NoResult

SpecFaulty == InitFaulty /\ [][NextReshare]_vars

(***************************************************************************)
(* Scenario 10: calculate_lagrange_coefficient on a free party point and   *)
(* a free point list: points repeated, the party point absent, points      *)
(* that are different integers and the same field element.                 *)
(***************************************************************************)
LagrangePoints == (0..(MaxIndex + 1)) \cup {P, P + 1}

InitLagrange ==
    /\ pc = "lg_input"
    /\ secret = 0
    /\ thr = 0
    /\ num = 0
    /\ coeffs = <<>>
    /\ recs = <<>>
    /\ points \in SeqsUpTo(LagrangePoints, MaxPoints)
    /\ todo = <<>>
    /\ adds = <<>>
    /\ work = <<>>
    /\ shares_sent = <<>>
    /\ rnd_used = <<>>
    /\ agg_j = 0
    /\ partials = <<>>
    /\ templates = <<>>
    /\ opts = NoOpts
    /\ party_point \in LagrangePoints
    /\ force_refresh = FALSE
    /\ disk = <<>>
    /\ runs = 0
    /\ result = NoResult

\* math.rs:46-68; invert().unwrap() on zero is the panic
Lagrange ==
    /\ pc = "lg_input"
    /\ LET lambda == calculate_lagrange_coefficient(party_point, points)
       IN  result' = IF lambda = -1 THEN Err("panic") ELSE Ok(lambda)
    /\ pc' = "lg_done"
    /\ UNCHANGED <<secret, thr, num, coeffs, recs, points, todo, adds, work,
                   shares_sent, rnd_used, agg_j, partials, templates,
                   opts, party_point, force_refresh, disk, runs>>

NextLagrange == Lagrange

SpecLagrange == InitLagrange /\ [][NextLagrange]_vars

(***************************************************************************)
(* Scenario 11: the operations that write a secret share into a cggmp24    *)
(* key share.  The templates are key shares of the group of scenario 7,    *)
(* the refreshed records carry every index of the group once, in any       *)
(* order.  Either from_portable_to_cggmp patches the first template with   *)
(* the first record (of the same party or not) and any optional arguments: *)
(* none, the old public shares, the lists regenerated from the records, an *)
(* empty commitment list; or update_cggmp_shares_from_portable updates all *)
(* templates.                                                              *)
(***************************************************************************)
\* the optional arguments a caller holding the templates and records can pass
PublicShareOpts(tpls, rs) ==
    {None, Some(tpls[1].public_shares)}
        \cup (IF reconstruct_global_params(rs).ok
              THEN {Some(reconstruct_global_params(rs).val.public_shares)} ELSE {})

CommitmentOpts(rs) ==
    {None, Some(<<>>)}
        \cup (IF reconstruct_global_params(rs).ok
              THEN {Some(reconstruct_global_params(rs).val.commitments)} ELSE {})

InitPatch ==
    /\ pc = "pt_input"
    /\ secret = 1
    /\ num \in 2..MaxUpdateParties
    /\ thr \in 2..num
    /\ coeffs = <<>>
    /\ \E q \in InjSeqs(0..(num - 1)) :
          /\ q # <<>>
          /\ templates = [k \in 1..Len(q) |-> OldTemplate(q[k], num, thr)]
    /\ \E q \in InjSeqs(0..(num - 1)), xs \in [1..num -> UpdateXInputs] :
          /\ Len(q) = num
          /\ recs = [k \in 1..num |->
                       PortableKeyShare(q[k], thr, num, xs[k], EncodePoint(GenMul(1)))]
    /\ points = <<>>
    /\ todo = <<>>
    /\ adds = <<>>
    /\ work = <<>>
    /\ shares_sent = <<>>
    /\ rnd_used = <<>>
    /\ agg_j = 0
    /\ partials = <<>>
    /\ opts = NoOpts
    /\ party_point = 0
    /\ force_refresh = FALSE
    /\ disk = <<>>
    /\ runs = 0
    /\ result = NoResult

\* cggmp.rs:60-108 on the first template and the first record
PatchShare(new_public_shares, new_vss_commitments) ==
    /\ pc = "pt_input"
    /\ opts' = [new_public_shares |-> new_public_shares,
                new_vss_commitments |-> new_vss_commitments]
    /\ result' = from_portable_to_cggmp(templates[1], recs[1],
                                        new_public_shares, new_vss_commitments)
    /\ pc' = "pt_patched"
    /\ UNCHANGED <<secret, thr, num, coeffs, recs, points, todo, adds, work,
                   shares_sent, rnd_used, agg_j, partials, templates,
                   party_point, force_refresh, disk, runs>>

\* cggmp.rs:223-255 on all templates
PatchAll ==
    /\ pc = "pt_input"
    /\ result' = update_cggmp_shares_from_portable(templates, recs)
    /\ pc' = "pt_updated"
    /\ UNCHANGED <<secret, thr, num, coeffs, recs, points, todo, adds, work,
                   shares_sent, rnd_used, agg_j, partials, templates,
                   opts, party_point, force_refresh, disk, runs>>

NextPatch ==
    \/ \E new_public_shares \in PublicShareOpts(templates, recs),
          new_vss_commitments \in CommitmentOpts(recs) :
          PatchShare(new_public_shares, new_vss_commitments)
    \/ PatchAll

SpecPatch == InitPatch /\ [][NextPatch]_vars

(***************************************************************************)
(* Scenario 12: run_dkg called again and again on one data directory,      *)
(* empty at first, with any group size and threshold; between two calls a  *)
(* file of the directory may get damaged (the load failure run_dkg         *)
(* provides for).                                                          *)
(***************************************************************************)
InitDkg ==
    /\ pc = "dkg_idle"
    /\ secret = 0
    /\ thr = 0
    /\ num = 0
    /\ coeffs = <<>>
    /\ recs = <<>>
    /\ points = <<>>
    /\ todo = <<>>
    /\ adds = <<>>
    /\ work = <<>>
    /\ shares_sent = <<>>
    /\ rnd_used = <<>>
    /\ agg_j = 0
    /\ partials = <<>>
    /\ templates = <<>>
    /\ opts = NoOpts
    /\ party_point = 0
    /\ force_refresh = FALSE
    /\ disk = [i \in 0..(MaxDkgParties - 1) |-> MissingFile]
    /\ runs = 0
    /\ result = NoResult

\* simulation/cggmp.rs:170-234
RunDkg(n_parties, threshold) ==
    /\ num' = n_parties
    /\ thr' = threshold
    /\ disk' = run_dkg(disk, n_parties, threshold).disk
    /\ runs' = run_dkg(disk, n_parties, threshold).runs
    /\ result' = run_dkg(disk, n_parties, threshold).result
    /\ pc' = "dkg_done"
    /\ UNCHANGED <<secret, coeffs, recs, points, todo, adds, work, shares_sent,
                   rnd_used, agg_j, partials, templates, opts, party_point,
                   force_refresh>>

\* a file of the data directory gets damaged
DamageFile(i) ==
    /\ disk[i].kind = "share"
    /\ disk' = [disk EXCEPT ![i] = UnparsableFile]
    /\ pc' = "dkg_idle"
    /\ UNCHANGED <<secret, thr, num, coeffs, recs, points, todo, adds, work,
                   shares_sent, rnd_used, agg_j, partials, templates, opts,
                   party_point, force_refresh, runs, result>>

NextDkg ==
    \/ \E n_parties \in 2..MaxDkgParties, threshold \in 2..MaxDkgParties :
          threshold <= n_parties /\ RunDkg(n_parties, threshold)
    \/ \E i \in 0..(MaxDkgParties - 1) : DamageFile(i)

SpecDkg == InitDkg /\ [][NextDkg]_vars

(***************************************************************************)
(* Scenario 13: run_refresh_workflow called again and again on one cache   *)
(* path, with the key shares of the parties 0..n-1; between two calls the  *)
(* cache file may get damaged.                                             *)
(***************************************************************************)
InitRefresh ==
    /\ pc = "rf_idle"
    /\ secret = 0
    /\ thr = 0
    /\ num = 0
    /\ coeffs = <<>>
    /\ recs = <<>>
    /\ points = <<>>
    /\ todo = <<>>
    /\ adds = <<>>
    /\ work = <<>>
    /\ shares_sent = <<>>
    /\ rnd_used = <<>>
    /\ agg_j = 0
    /\ partials = <<>>
    /\ templates = <<>>
    /\ opts = NoOpts
    /\ party_point = 0
    /\ force_refresh = FALSE
    /\ disk = NoCache
    /\ runs = 0
    /\ result = NoResult

\* simulation/synedrion.rs:278-341
RunRefresh(n, force, outcome, r) ==
    LET synedrion_data == Vec([k \in 1..n |-> [i |-> k - 1, x |-> 0]])
        out == run_refresh_workflow(disk, synedrion_data, force, outcome, r)
    IN  /\ recs' = synedrion_data
        /\ force_refresh' = force
        /\ disk' = out.disk
        /\ runs' = out.runs
        /\ result' = out.result
        /\ pc' = "rf_done"
        /\ UNCHANGED <<secret, thr, num, coeffs, points, todo, adds, work,
                       shares_sent, rnd_used, agg_j, partials, templates, opts,
                       party_point>>

\* the cache file gets damaged
DamageCache ==
    /\ disk.kind = "cache"
    /\ disk' = UnparsableCache
    /\ pc' = "rf_idle"
    /\ UNCHANGED <<secret, thr, num, coeffs, recs, points, todo, adds, work,
                   shares_sent, rnd_used, agg_j, partials, templates, opts,
                   party_point, force_refresh, runs, result>>

NextRefresh ==
    \/ \E n \in 1..MaxRefreshParties, force \in BOOLEAN,
           outcome \in RefreshOutcomes, r \in 1..(MaxRand + 1) :
          RunRefresh(n, force, outcome, r)
    \/ DamageCache

SpecRefresh == InitRefresh /\ [][NextRefresh]_vars

(***************************************************************************)
(* Claims checked on scenario 1 (SpecDeal).                                *)
(***************************************************************************)
\* the value at x of the polynomial with coefficients cs, term by term
DirectEval(cs, x) ==
    FSum([k \in 1..Len(cs) |-> FMul(cs[k], FPow(x, k - 1))])

\* the secret shares carried by a sequence of records
SharesOf(rs) == [k \in 1..Len(rs) |-> ParseScalar(rs[k].x_hex).val]

\* C1: for a Shamir sharing of secret s with threshold t and a quorum S of at
\* least t distinct parties (S not empty), when every member of S has run
\* shamir_portable_to_additive_portable with the same point list
\* {i+1 : i in S}, the additive shares sum to s in the scalar field.
C1_AdditiveSharesSumToSecret ==
    (pc = "converted" /\ Len(points) >= thr)
        => FSum(SharesOf(adds)) = secret

C1_Witness ==
    /\ pc = "converted"
    /\ thr = 3 /\ num = 4 /\ Len(adds) = 3
    /\ points = <<1, 3, 4>>
    /\ coeffs[2] # 0 /\ coeffs[3] # 0 /\ secret # 0

\* C3: for t <= n, reconstruct_global_params on any t of the n shares dealt
\* by generate_polynomial_shares (the records carrying t), and on any larger
\* choice of them, in any order, succeeds with the first commitment equal
\* to secret*G, whatever the choice; the choice holds at least one record.
C3_FirstCommitmentIsSecretG ==
    (pc = "reconstructed" /\ Len(todo) >= thr /\ Len(todo) >= 1)
        => /\ result.ok
           /\ result.val.commitments[1] = EncodePoint(GenMul(secret))

C3_Witness ==
    /\ pc = "reconstructed"
    /\ thr = 3 /\ num = 4 /\ Len(todo) = 3
    /\ todo[1].i = 3 /\ todo[2].i = 0 /\ todo[3].i = 2
    /\ coeffs[2] # 0 /\ coeffs[3] # 0 /\ secret # 0
    /\ result.ok

\* C7: generate_polynomial_shares(secret, t, n) returns exactly n values,
\* the j-th (0-based) being f(j+1) for the polynomial f with the max(t,1)
\* coefficients it built, the first of which is the secret; for t = 0 and
\* t = 1 every returned value is the secret.
C7_SharesLieOnPolynomial ==
    pc = "dealt"
        => /\ result.ok
           /\ Len(result.val) = num
           /\ Len(coeffs) = (IF thr >= 1 THEN thr ELSE 1)
           /\ coeffs[1] = secret
           /\ \A j \in 1..num : result.val[j] = DirectEval(coeffs, j)
           /\ thr <= 1 => \A j \in 1..num : result.val[j] = secret

C7_Witness ==
    /\ pc = "dealt"
    /\ thr = 3 /\ num = 4
    /\ coeffs[3] # 0 /\ coeffs[2] # 0
    /\ result.val[4] # secret

(***************************************************************************)
(* Claims checked on scenario 2 (SpecConvert).                             *)
(***************************************************************************)
\* the positions of all_indices holding a coordinate other than point
Others(all_indices, point) ==
    {k \in 1..Len(all_indices) : all_indices[k] % P # point % P}

RECURSIVE ProdOver(_, _, _)
ProdOver(K, all_indices, shift) ==
    IF K = {} THEN 1
    ELSE LET k == CHOOSE a \in K : TRUE
         IN  FMul(FSub(all_indices[k] % P, shift),
                  ProdOver(K \ {k}, all_indices, shift))

HasDuplicate(q) == \E a, b \in 1..Len(q) : a # b /\ q[a] = q[b]

\* C6: shamir_portable_to_additive_portable (through
\* calculate_lagrange_coefficient) returns an error, and no share, whenever
\* all_indices holds a repeated coordinate.
C6_DuplicatePointRejected ==
    (pc = "conv_done" /\ HasDuplicate(points)) => ~result.ok

\* C8: a successful shamir_portable_to_additive_portable returns a record
\* whose x is the input x times the Lagrange coefficient of point i+1 over
\* all_indices (x' * prod (x_j - x_i) = x * prod x_j, over the coordinates
\* x_j other than x_i = i+1), whose t equals its n, and whose i, n and y are
\* those of the input record.
C8_AdditiveRecordFrame ==
    (pc = "conv_done" /\ result.ok)
        => LET in == recs[1]
               out == result.val
               K == Others(points, in.i + 1)
           IN  /\ ParseScalar(out.x_hex).ok
               /\ FMul(ParseScalar(out.x_hex).val, ProdOver(K, points, in.i + 1))
                    = FMul(ParseScalar(in.x_hex).val, ProdOver(K, points, 0))
               /\ out.t = out.n
               /\ out.i = in.i
               /\ out.n = in.n
               /\ out.y_hex = in.y_hex

C8_Witness ==
    /\ pc = "conv_done"
    /\ result.ok
    /\ points = <<1, 2, 3>>
    /\ recs[1].i = 1 /\ recs[1].t = 2 /\ recs[1].n = MaxParties
    /\ recs[1].x_hex = <<"0", "2">>
    /\ result.val.x_hex # recs[1].x_hex

(***************************************************************************)
(* Claims checked on scenario 3 (SpecReshare).                             *)
(***************************************************************************)
\* the sum of the additive shares handed to the resharing: the secret
InputSecret == FSum(SharesOf(recs))

\* the indices of the input records are 0..n-1
DenseIndices == {recs[k].i : k \in 1..Len(recs)} = 0..(Len(recs) - 1)

\* the input record with the j-th smallest index
SortedInput(j) ==
    LET k == CHOOSE a \in 1..Len(recs) :
                 Cardinality({b \in 1..Len(recs) : recs[b].i < recs[a].i}) = j - 1
    IN  recs[k]

\* textbook interpolation at 0 of the points (rs[k].i + 1, x of rs[k]), k in T
RECURSIVE BasisAtZero(_, _, _)
BasisAtZero(rs, T, k) ==
    IF T = {} THEN 1
    ELSE LET j == CHOOSE a \in T : TRUE
         IN  IF j = k THEN BasisAtZero(rs, T \ {j}, k)
             ELSE FMul(FMul(rs[j].i + 1, Invert(FSub(rs[j].i + 1, rs[k].i + 1))),
                       BasisAtZero(rs, T \ {j}, k))

RECURSIVE InterpolateAtZero(_, _, _)
InterpolateAtZero(rs, T, K) ==
    IF K = {} THEN 0
    ELSE LET k == CHOOSE a \in K : TRUE
         IN  FAdd(FMul(ParseScalar(rs[k].x_hex).val, BasisAtZero(rs, T, k)),
                  InterpolateAtZero(rs, T, K \ {k}))

\* the coefficients of the sum of the senders' polynomials
SummedPoly ==
    [k \in 1..(Degree(thr) + 1) |->
        FSum([i \in 1..Len(rnd_used) |->
                PolyCoeffs(ParseScalar(SortedInput(i).x_hex).val, rnd_used[i])[k]])]

\* the contribution of the random coefficients to the summed polynomial at x
RandomPart(x) ==
    FSum([k \in 1..Degree(thr) |->
            FMul(FSum([i \in 1..Len(rnd_used) |-> rnd_used[i][k]]), FPow(x, k))])

\* C2: for n additive shares with indices 0..n-1 summing to s and a
\* threshold 1 <= t <= n, after additive_portable_to_shamir_portable
\* interpolation at 0 from any t of the output records (index i at point
\* i+1) gives s, whatever random coefficients the senders drew.
C2_ResharedSubsetsRecoverSecret ==
    (pc = "rs_done" /\ DenseIndices /\ thr >= 1 /\ thr <= Len(recs))
        => /\ result.ok
           /\ \A T \in SUBSET (1..Len(recs)) :
                 Cardinality(T) = thr
                    => InterpolateAtZero(result.val, T, T) = InputSecret

C2_Witness ==
    /\ pc = "rs_done"
    /\ DenseIndices
    /\ Len(recs) = 3 /\ thr = 2
    /\ recs[1].i = 2 /\ recs[2].i = 0
    /\ InputSecret # 0
    /\ \A i \in 1..3 : rnd_used[i][1] # 0
    /\ result.ok
    /\ result.val[1].x_hex # result.val[2].x_hex

\* C5: after additive_portable_to_shamir_portable on records with unique
\* indices (dense or not), each output record with index i holds the summed
\* polynomial evaluated at i+1, so that reconstruct_global_params on the
\* output gives the first commitment secret*G.
C5_IndexPlusOneEverywhere ==
    (pc = "rs_done" /\ thr >= 1 /\ thr <= Len(recs))
        => /\ result.ok
           /\ \A j \in 1..Len(result.val) :
                 ParseScalar(result.val[j].x_hex).val
                    = DirectEval(SummedPoly, result.val[j].i + 1)
           /\ reconstruct_global_params(result.val).ok
           /\ reconstruct_global_params(result.val).val.commitments[1]
                 = EncodePoint(GenMul(InputSecret))

\* C9: a successful additive_portable_to_shamir_portable returns as many
\* records as it was given; the record at sorted position j has x equal to
\* the field sum of the j-th sub-share of every sender and t equal to the
\* requested threshold, and the i, n and y of the input record with the
\* j-th smallest index.
C9_ResharedRecordFrame ==
    (pc = "rs_done" /\ result.ok)
        => /\ Len(result.val) = Len(recs)
           /\ Len(shares_sent) = Len(recs)
           /\ \A j \in 1..Len(result.val) :
                 /\ result.val[j].x_hex =
                       EncodeScalar(FSum([i \in 1..Len(recs) |->
                                            ParseScalar(shares_sent[i][j]).val]))
                 /\ result.val[j].t = thr
                 /\ result.val[j].i = SortedInput(j).i
                 /\ result.val[j].n = SortedInput(j).n
                 /\ result.val[j].y_hex = SortedInput(j).y_hex

C9_Witness ==
    /\ pc = "rs_done"
    /\ result.ok
    /\ Len(recs) = 3 /\ thr = 3
    /\ recs[1].i = 3 /\ recs[2].i = 0 /\ recs[3].i = 1
    /\ \A i \in 1..3 : rnd_used[i][2] # 0
    /\ result.val[1].x_hex # result.val[2].x_hex
    /\ result.val[1].x_hex # recs[2].x_hex

CommitmentEval(commitments, x) ==
    PSum([j \in 1..Len(commitments) |->
            PMul(DecodePoint(commitments[j]), FPow(x, j - 1))])

\* C4: whenever reconstruct_global_params succeeds it returns exactly n
\* public shares, n being the n of the first record, and for every party
\* index k in 0..n-1 the k-th public share is the sum over j of
\* commitment[j]*(k+1)^j, computed from the returned commitments.
C4_PublicSharesMatchCommitments ==
    (pc = "rc_done" /\ result.ok)
        => /\ Len(result.val.public_shares) = recs[1].n
           /\ \A k \in 0..(recs[1].n - 1) :
                 result.val.public_shares[k + 1]
                    = EncodePoint(CommitmentEval(result.val.commitments, k + 1))

C4_Witness ==
    /\ pc = "rc_done"
    /\ result.ok
    /\ Len(recs) = 3 /\ recs[1].n = 2 /\ recs[1].t = 2
    /\ recs[1].i = 3 /\ recs[2].i = 0 /\ recs[3].i = 1
    /\ result.val.commitments[3] # <<"0", "0">>
    /\ result.val.commitments[2] # <<"0", "0">>
    /\ result.val.public_shares[1] # result.val.public_shares[2]

\* every supplied x_hex is a string hex::decode accepts
AllHexDecodes(rs) == \A k \in 1..Len(rs) : hex_decode(rs[k].x_hex).ok

\* two of the supplied records carry the same index
RepeatedIndex(rs) == \E a, b \in 1..Len(rs) : a # b /\ rs[a].i = rs[b].i

C12_EmptyInputRejected ==
    (pc = "rc_done" /\ recs = <<>>)
        => /\ ~result.ok
           /\ result.err = "No refreshed data provided"
           /\ result.val = <<>>

C12_Witness ==
    /\ pc = "rc_done"
    /\ recs = <<>>
    /\ ~result.ok

\* C13: when the supplied records pass the hex decoding and the threshold
\* check (at least one record, at least t of the first record) and two of
\* them carry the same index, reconstruct_global_params fails with the
\* field-inversion error.
C13_RepeatedIndexFailsInversion ==
    (pc = "rc_done" /\ AllHexDecodes(recs) /\ Len(recs) >= 1
        /\ Len(recs) >= recs[1].t /\ RepeatedIndex(recs))
        => /\ ~result.ok
           /\ result.err = "Inversion failed"
           /\ result.val = <<>>

C13_Witness ==
    /\ pc = "rc_done"
    /\ Len(recs) = 3 /\ recs[1].t = 2
    /\ recs[1].i = 1 /\ recs[2].i = 2 /\ recs[3].i = 1
    /\ recs[1].x_hex # recs[3].x_hex
    /\ result.err = "Inversion failed"

(***************************************************************************)
(* Claims checked on scenario 5 (SpecCodec).                               *)
(***************************************************************************)
\* the string is hexadecimal (after the optional prefix) and stands for an
\* integer that is no field element or is longer than the scalar width
NonCanonical(x_hex) ==
    LET bytes == hex_decode(pad_hex(strip_0x(x_hex)))
    IN  /\ bytes.ok
        /\ \/ Len(bytes.val) > ScalarBytes
           \/ BytesToInt(bytes.val) >= P

\* the records with a 0x put in front of every x_hex
Prefixed(rs) == [k \in 1..Len(rs) |-> [rs[k] EXCEPT !.x_hex = <<"0", "x">> \o @]]

\* the secret-share strings the finished operation has read
StringsRead ==
    IF pc \in {"cd_conv", "cd_sub"} THEN {recs[1].x_hex}
    ELSE {recs[k].x_hex : k \in 1..Len(recs)}

\* C14: each of shamir_portable_to_additive_portable,
\* generate_resharing_polynomial, additive_portable_to_shamir_portable and
\* reconstruct_global_params fails when a secret-share string it reads
\* decodes to an integer that is no canonical field element or is longer
\* than the scalar width.
C14_NonCanonicalShareRejected ==
    (pc \in {"cd_conv", "cd_sub", "cd_reshare", "cd_recon"}
        /\ \E x \in StringsRead : NonCanonical(x))
        => ~result.ok

\* C15: each of shamir_portable_to_additive_portable,
\* additive_portable_to_shamir_portable and reconstruct_global_params gives
\* the same result for the records with and without a 0x in front of x.
C15_PrefixMakesNoDifference ==
    /\ pc = "cd_conv"
          => shamir_portable_to_additive_portable(Prefixed(recs)[1], points) = result
    /\ pc = "cd_reshare"
          => additive_portable_to_shamir_portable(Prefixed(recs), thr, rnd_used) = result
    /\ pc = "cd_recon"
          => reconstruct_global_params(Prefixed(recs)) = result

\* full scalar width, lowercase hex digits only (so no 0x prefix either)
FixedWidthLower(h) ==
    /\ Len(h) = 2 * ScalarBytes
    /\ \A k \in 1..Len(h) : \E d \in 1..16 : HexLower[d] = h[k]

\* C16: the x of the record returned by
\* shamir_portable_to_additive_portable, the x of every record returned by
\* additive_portable_to_shamir_portable and every sub-share returned by
\* generate_resharing_polynomial is lowercase hex of the full scalar width
\* without prefix, whatever the form of the input string.
C16_WrittenSharesAreFixedWidthLower ==
    /\ (pc = "cd_conv" /\ result.ok) => FixedWidthLower(result.val.x_hex)
    /\ (pc = "cd_sub" /\ result.ok)
          => /\ Len(result.val) = Len(recs)
             /\ \A j \in 1..Len(result.val) : FixedWidthLower(result.val[j])
    /\ (pc = "cd_reshare" /\ result.ok)
          => /\ Len(result.val) = Len(recs)
             /\ \A j \in 1..Len(result.val) : FixedWidthLower(result.val[j].x_hex)

C16_Witness ==
    /\ pc = "cd_reshare"
    /\ result.ok
    /\ Len(recs) = 2
    /\ recs[1].x_hex = <<"0", "x", "0", "2">>
    /\ recs[2].x_hex = <<"0", "B">>
    /\ thr = 2
    /\ result.val[1].x_hex # result.val[2].x_hex

(***************************************************************************)
(* Claims checked on scenario 6 (SpecVector).                              *)
(***************************************************************************)
\* the worked example: f(x) = 7 + 2x + 5x^2 dealt to 5 parties
ExampleDealt == coeffs = <<7, 2, 5>> /\ num = 5 /\ thr = 3

\* C17 as claimed: over the field of order 17 the shares of
\* f(x) = 7 + 2x + 5x^2 at the points 1..5 are 14, 9, 6, 5, 6, and the
\* converted shares of the quorum at the points {1,3,5} sum to 7.
C17_ExampleSharesAsStated ==
    /\ (pc = "dealt" /\ ExampleDealt) => result.val = <<14, 9, 6, 5, 6>>
    /\ (pc = "converted" /\ ExampleDealt /\ points = <<1, 3, 5>>)
          => FSum(SharesOf(adds)) = 7

\* C17 as amended: over the field of order 17 the shares of
\* f(x) = 7 + 2x + 5x^2 at the points 1..5 are 14, 14, 7, 10, 6, and the
\* converted shares of the quorum at the points {1,3,5} sum to 7.
C17_ExampleSharesRecomputed ==
    /\ (pc = "dealt" /\ ExampleDealt) => result.val = <<14, 14, 7, 10, 6>>
    /\ (pc = "converted" /\ ExampleDealt /\ points = <<1, 3, 5>>)
          => FSum(SharesOf(adds)) = 7

C17_Witness ==
    /\ pc = "converted"
    /\ ExampleDealt
    /\ P = 17
    /\ points = <<1, 3, 5>>
    /\ Len(adds) = 3
    /\ result.val[3] = 7
    /\ SharesOf(adds) = <<5, 4, 15>>

(***************************************************************************)
(* Claims checked on scenario 7 (SpecUpdate).                              *)
(***************************************************************************)
\* the positions of the templates whose party has no refreshed record
MissingPositions ==
    {k \in 1..Len(templates) : \A m \in 1..Len(recs) : recs[m].i # templates[k].i}

FirstMissing == CHOOSE k \in MissingPositions : \A m \in MissingPositions : k <= m

\* the refreshed data passes every check of reconstruct_global_params
Reconstructible(rs) ==
    /\ rs # <<>>
    /\ AllHexDecodes(rs)
    /\ Len(rs) >= rs[1].t
    /\ ~RepeatedIndex(rs)

\* the refreshed record of the party of the k-th template
RecordOf(k) ==
    recs[CHOOSE m \in 1..Len(recs) :
             /\ recs[m].i = templates[k].i
             /\ \A a \in 1..Len(recs) : recs[a].i = templates[k].i => a <= m]

\* on success: one updated share per template, in template order, holding
\* the refreshed x of its party
OnePerTemplate ==
    (pc = "up_done" /\ result.ok)
        => /\ Len(result.val) = Len(templates)
           /\ \A k \in 1..Len(templates) :
                 /\ result.val[k].i = templates[k].i
                 /\ result.val[k].x = RecordOf(k).x_hex

\* C18 as claimed: when some template's party has no refreshed record,
\* update_cggmp_shares_from_portable fails with the missing-refreshed-data
\* error naming such a party and returns no updated share; on success it
\* returns one updated share per template, in template order.
C18_MissingPartyNamed ==
    /\ (pc = "up_done" /\ MissingPositions # {})
          => /\ result.val = <<>>
             /\ \E k \in MissingPositions : result = MissingRefreshed(templates[k].i)
    /\ OnePerTemplate

\* C18 as amended: when some template's party has no refreshed record the
\* call fails and returns no updated share at all; the error is the one of
\* reconstruct_global_params when the refreshed data does not pass it, and
\* otherwise the deserialization error of an earlier template or the
\* missing-refreshed-data error naming the first such template (always the
\* latter when that template is the first one); on success the call returns
\* one updated share per template, in template order.
C18_MissingPartyFailsWhole ==
    /\ (pc = "up_done" /\ MissingPositions # {})
          => /\ ~result.ok
             /\ result.val = <<>>
             /\ ~Reconstructible(recs) => result = reconstruct_global_params(recs)
             /\ Reconstructible(recs)
                   => \/ result = MissingRefreshed(templates[FirstMissing].i)
                      \/ /\ result.err = "Failed to deserialize patched KeyShare"
                         /\ FirstMissing > 1
    /\ OnePerTemplate

C18_Witness ==
    /\ pc = "up_done"
    /\ Len(templates) = 3
    /\ templates[1].i = 2 /\ templates[2].i = 0 /\ templates[3].i = 1
    /\ Len(recs) = 2 /\ recs[1].i = 2 /\ recs[2].i = 1 /\ recs[1].t = 2
    /\ result = MissingRefreshed(0)

\* a successful update of all three templates, in template order
C18_SuccessReached ==
    /\ pc = "up_done"
    /\ result.ok
    /\ Len(templates) = 3 /\ templates[1].i = 2 /\ templates[2].i = 0
    /\ Len(result.val) = 3
    /\ result.val[1].x # templates[1].x

\* C19: every key share update_cggmp_shares_from_portable produces has the
\* shared public key y carried by the refreshed records: when the first
\* reconstructed commitment differs from y the call produces no key share.
C19_MismatchingKeyRefused ==
    (pc = "up_done" /\ result.ok)
        => \A k \in 1..Len(result.val) :
              result.val[k].shared_public_key = recs[1].y_hex


(***************************************************************************)
(* Claims checked on scenario 8 (SpecChain).                               *)
(***************************************************************************)
\* the records of the set, converted or not yet converted
ChainRecords ==
    {recs[k] : k \in 1..Len(recs)} \cup {adds[k] : k \in 1..Len(adds)}
        \cup {todo[k] : k \in 1..Len(todo)}

\* C20: starting from a set of records that agree on n, y and t, after any
\* sequence of core conversions applied to the whole set
\* (shamir_portable_to_additive_portable on each record with a common point
\* list, additive_portable_to_shamir_portable on the set), all records still
\* agree on n and on y and, after each completed conversion, on t.
C20_RecordsAgree ==
    /\ \A r, q \in ChainRecords : r.n = q.n /\ r.y_hex = q.y_hex
    /\ pc = "ch_ready" => \A k \in 1..Len(recs) : recs[k].t = recs[1].t

C20_Witness ==
    /\ pc = "ch_ready"
    /\ result.ok
    /\ Len(recs) = 2
    /\ thr = 2
    /\ recs[1].n = 3 /\ recs[1].t = 3 /\ recs[2].t = 3
    /\ todo = <<>> /\ adds = recs


(***************************************************************************)
(* Claims checked on scenario 3 (SpecReshare), continued.                  *)
(***************************************************************************)
\* the field sum of the sub-shares the senders 1..i sent to receiver j
ReceivedSum(j, i) ==
    FSum([a \in 1..i |-> ParseScalar(shares_sent[a][j]).val])

\* C21: in additive_portable_to_shamir_portable no receiving party's
\* aggregation starts before the sub-shares of all n senders have been
\* generated, and every party's new share is the sum of exactly n
\* sub-shares, one from each sender (its own included); no output share is
\* ever built from a partial set of sub-shares.
C21_NoPartialAggregation ==
    (pc \in {"rs_gen", "rs_agg", "rs_done", "rs_failed"})
        => /\ Len(partials) = agg_j
           /\ (agg_j > 0 \/ pc \in {"rs_agg", "rs_done"})
                 => /\ Len(shares_sent) = Len(recs)
                    /\ \A i \in 1..Len(recs) : Len(shares_sent[i]) = Len(recs)
           /\ \A j \in 1..Len(work) :
                 IF j <= agg_j
                 THEN /\ Len(partials[j]) = Len(recs)
                      /\ \A i \in 1..Len(recs) : partials[j][i] = ReceivedSum(j, i)
                      /\ work[j].x_hex = EncodeScalar(ReceivedSum(j, Len(recs)))
                 ELSE work[j] = sort_by_key(recs)[j]
           /\ (pc = "rs_done") => (result.ok /\ result.val = work /\ agg_j = Len(recs))

C21_Witness ==
    /\ pc = "rs_agg"
    /\ Len(recs) = 3 /\ thr = 2
    /\ agg_j = 2
    /\ recs[1].i = 2 /\ recs[2].i = 0
    /\ \A i \in 1..3 : rnd_used[i][1] # 0 /\ recs[i].x_hex # <<"0", "0">>
    /\ work[1].x_hex # SortedInput(1).x_hex
    /\ work[3] = SortedInput(3)


(***************************************************************************)
(* Claims checked on scenario 9 (SpecFaulty).                              *)
(***************************************************************************)
\* the string, without its optional prefix, holds a character that is no
\* hex digit
Malformed(x_hex) ==
    \E k \in 1..Len(strip_0x(x_hex)) : DigitVal(strip_0x(x_hex)[k]) < 0

\* the sorted positions of the records with a malformed, over-long or
\* non-canonical x
FaultyPositions ==
    {k \in 1..Len(recs) :
        \/ Malformed(sort_by_key(recs)[k].x_hex)
        \/ NonCanonical(sort_by_key(recs)[k].x_hex)}

\* C22: if any one input record of additive_portable_to_shamir_portable
\* carries a malformed, over-long or non-canonical x, the whole operation
\* returns an error and no record with a changed x or t is returned; the
\* failure is detected during sub-share generation, before any party's
\* aggregation.
C22_FaultyShareFailsInGeneration ==
    (FaultyPositions # {} /\ pc # "rs_input")
        => /\ pc \in {"rs_gen", "rs_failed"}
           /\ agg_j = 0 /\ partials = <<>>
           /\ work = sort_by_key(recs)
           /\ \A k \in FaultyPositions : Len(shares_sent) < k
           /\ pc = "rs_gen" => result = NoResult
           /\ pc = "rs_failed"
                 => /\ ~result.ok /\ result.val = <<>>
                    /\ result.err \in {"hex", "Scalar bytes too long", "Invalid scalar"}
                    /\ Len(shares_sent) + 1 \in FaultyPositions

C22_Witness ==
    /\ pc = "rs_failed"
    /\ Len(recs) = 3 /\ thr = 2
    /\ FaultyPositions = {3}
    /\ Len(shares_sent) = 2
    /\ result.err = "Invalid scalar"
    /\ recs[1].i = 2

\* a resharing of accepted strings completes
C22_AcceptedReached ==
    /\ pc = "rs_done"
    /\ Len(recs) = 3
    /\ recs[1].x_hex = <<"0", "x", "0", "2">> /\ recs[2].x_hex = <<"3">>
    /\ recs[3].x_hex = <<"0", "B">>


(***************************************************************************)
(* Claims checked on scenario 10 (SpecLagrange).                           *)
(***************************************************************************)
\* the positions of the point list whose difference to the party point is
\* inverted: those not skipped by the comparison of the field elements
InvertedPositions ==
    {k \in 1..Len(points) :
        ScalarFromU64(points[k]) # ScalarFromU64(party_point)}

\* C23: calculate_lagrange_coefficient never aborts on a zero denominator:
\* for every party point and every point list (with duplicates, with the
\* party point absent, with points equal in the field), field inversion is
\* only attempted on a non-zero difference, so a singular denominator is
\* either unreachable or reported as an error value.
C23_NoZeroDenominator ==
    /\ \A k \in InvertedPositions :
          /\ FSub(ScalarFromU64(points[k]), ScalarFromU64(party_point)) # 0
          /\ Invert(FSub(ScalarFromU64(points[k]), ScalarFromU64(party_point))) # -1
    /\ pc = "lg_done"
          => /\ result.ok
             /\ FMul(result.val,
                     ProdOver(InvertedPositions, points, ScalarFromU64(party_point)))
                   = ProdOver(InvertedPositions, points, 0)

C23_Witness ==
    /\ pc = "lg_done"
    /\ party_point = 1
    /\ points = <<P + 1, 2, 2>>
    /\ result.ok


(***************************************************************************)
(* Claims checked on scenario 11 (SpecPatch).                              *)
(***************************************************************************)
\* the scalar a key share holds as x
SecretOf(js) == from_repr(hex_decode(js.x).val)

\* the key share carries the public share x*G for its own party
OwnPublicShareMatches(js) ==
    DecodePoint(js.public_shares[js.i + 1]) = GenMul(SecretOf(js))

\* the key share got a secret other than the template's only together with
\* another public share for its party
NoStalePublicShare(js, template) ==
    SecretOf(js) # SecretOf(template)
        => js.public_shares[js.i + 1] # template.public_shares[template.i + 1]

C24_PatchedReached ==
    /\ pc = "pt_patched" /\ result.ok
    /\ SecretOf(result.val) # SecretOf(templates[1])
    /\ num = 3

\* a single patch without public shares goes through for an unchanged secret
C24_UnchangedReached ==
    /\ pc = "pt_patched" /\ result.ok
    /\ ~opts.new_public_shares.some

\* C25: from_portable_to_cggmp changes only the secret share, the
\* public-share list, the commitment list and the shared public key of the
\* template key share; every other field of the template (party index,
\* threshold setup, participant list, auxiliary data) is identical in the
\* returned key share, and the template itself is not modified.
C25_PatchFrame ==
    [][pc' = "pt_patched"
         => /\ templates' = templates
            /\ result'.ok
                  => /\ DOMAIN result'.val = DOMAIN templates[1]
                     /\ result'.val.i = templates[1].i
                     /\ result'.val.vss_setup = templates[1].vss_setup
                     /\ result'.val.aux = templates[1].aux
                     /\ ~opts'.new_public_shares.some
                           => result'.val.public_shares = templates[1].public_shares
                     /\ (~opts'.new_vss_commitments.some
                            \/ opts'.new_vss_commitments.v = <<>>)
                           => result'.val.shared_public_key
                                 = templates[1].shared_public_key]_vars

C25_Witness ==
    /\ pc = "pt_patched" /\ result.ok
    /\ num = 3 /\ thr = 3
    /\ opts.new_public_shares.some /\ opts.new_vss_commitments.some
    /\ result.val.x # templates[1].x
    /\ result.val.public_shares # templates[1].public_shares
    /\ result.val.shared_public_key # templates[1].shared_public_key
    /\ recs[1].i = templates[1].i


(***************************************************************************)
(* Claims checked on scenario 4 (SpecRecon), continued.                    *)
(***************************************************************************)
\* the public point of the secret share a record carries
OwnPoint(data) == GenMul(BytesToInt(hex_decode(data.x_hex).val) % P)

\* C27: for every record supplied to a successful reconstruct_global_params
\* whose index i is below n, the returned public share at position i equals
\* x_i*G for that record's own secret share, whether or not the supplied
\* shares all lie on one polynomial of degree t-1.
C27_SuppliedSharesKeepTheirPublicShare ==
    (pc = "rc_done" /\ result.ok)
        => \A k \in 1..Len(recs) :
              recs[k].i < recs[1].n
                 => result.val.public_shares[recs[k].i + 1]
                       = EncodePoint(OwnPoint(recs[k]))

C27_Witness ==
    /\ pc = "rc_done"
    /\ result.ok
    /\ Len(recs) = 3 /\ recs[1].n = 3 /\ recs[1].t = 2
    /\ recs[1].i = 2 /\ recs[2].i = 0 /\ recs[3].i = 1
    /\ result.val.commitments[3] # <<"0", "0">>
    /\ result.val.public_shares[1] # result.val.public_shares[2]


(***************************************************************************)
(* Claims checked on scenario 1 (SpecDeal), continued.                     *)
(***************************************************************************)
\* the k-th coefficient (k = 1 for the constant term) of the dealt polynomial
DealtCoefficient(k) == IF k <= Len(coeffs) THEN coeffs[k] ELSE 0

\* C28: reconstruct_global_params returns as many commitments as records
\* supplied (not t of them); when more than t records are supplied and they
\* all lie on one polynomial of degree t-1, every commitment at position t
\* or above is the identity point and the first t commitments equal a_k*G
\* for that polynomial's coefficients.
C28_CommitmentsOfDealtPolynomial ==
    (pc = "reconstructed" /\ result.ok)
        => /\ Len(result.val.commitments) = Len(todo)
           /\ (Len(todo) > thr /\ \A k \in (thr + 1)..Len(coeffs) : coeffs[k] = 0)
                 => \A k \in 1..Len(todo) :
                       result.val.commitments[k]
                          = IF k <= thr THEN EncodePoint(GenMul(DealtCoefficient(k)))
                            ELSE EncodePoint(GenMul(0))

C28_Witness ==
    /\ pc = "reconstructed"
    /\ result.ok
    /\ thr = 2 /\ num = 4 /\ Len(todo) = 4
    /\ todo[1].i = 3 /\ todo[2].i = 0
    /\ coeffs[1] # 0 /\ coeffs[2] # 0
    /\ result.val.commitments[2] = EncodePoint(GenMul(coeffs[2]))
    /\ result.val.commitments[4] = <<"0", "0">>


(***************************************************************************)
(* Claims checked on scenario 3 (SpecReshare): the threshold.              *)
(***************************************************************************)
\* C29 as claimed: additive_portable_to_shamir_portable does not validate
\* the threshold against the number of records: called with threshold
\* greater than the number of supplied records it still succeeds and stamps
\* that threshold on every output record, after which
\* reconstruct_global_params on the complete output set fails with the
\* insufficient-shares error.
C29_OversizedThresholdStamped ==
    (pc = "rs_done" /\ thr > Len(recs))
        => /\ result.ok
           /\ Len(result.val) = Len(recs)
           /\ \A j \in 1..Len(result.val) : result.val[j].t = thr
           /\ reconstruct_global_params(result.val) = Err("insufficient shares")

\* C29 as amended: the same for at least one supplied record; with no
\* record the operation returns the empty set, on which
\* reconstruct_global_params fails with the empty-input error.
C29_OversizedThresholdOnRecords ==
    (pc = "rs_done" /\ thr > Len(recs))
        => /\ result.ok
           /\ Len(result.val) = Len(recs)
           /\ \A j \in 1..Len(result.val) : result.val[j].t = thr
           /\ reconstruct_global_params(result.val)
                 = IF Len(recs) >= 1 THEN Err("insufficient shares")
                   ELSE EmptyInputError

C29_Witness ==
    /\ pc = "rs_done"
    /\ Len(recs) = 2 /\ thr = 3
    /\ recs[1].i = 3 /\ recs[2].i = 0
    /\ result.ok
    /\ result.val[1].t = 3 /\ result.val[2].t = 3
    /\ rnd_used[1][2] # 0
    /\ reconstruct_global_params(result.val).err = "insufficient shares"


(***************************************************************************)
(* Claims checked on scenario 12 (SpecDkg).                                *)
(***************************************************************************)
\* the directory holds loadable shares for the call whose first share has
\* another threshold than the requested one
CacheMismatch(n_parties, threshold) ==
    /\ check_dkg_files_exist(disk, n_parties)
    /\ LoadLoop(disk, n_parties, 0, <<>>).load_success
    /\ disk[0].t # threshold

\* C26: run_dkg never returns cached key shares whose stored threshold
\* differs from the requested threshold: on a mismatch the cached data is
\* removed and the DKG is run exactly once, no core step is retried, and
\* whichever path is taken the returned shares are sorted by ascending
\* party index.
C26_NoMismatchingCachedShares ==
    [][pc' = "dkg_done"
         => /\ runs' \in {0, 1}
            /\ result'.ok
            /\ \A k \in 1..(Len(result'.val) - 1) :
                  result'.val[k].i < result'.val[k + 1].i
            /\ \A k \in 1..Len(result'.val) : result'.val[k].t = thr'
            /\ CacheMismatch(num', thr')
                  => /\ runs' = 1
                     /\ \A i \in DOMAIN disk :
                           disk'[i] = IF i < num' THEN KeyShareFile(i, thr', num')
                                      ELSE MissingFile]_vars

\* the parts of C26 that hold: at most one DKG run and none on a cache that
\* is used, removal and one run on a mismatch, the returned shares sorted
C26_RunOnceAndSorted ==
    [][pc' = "dkg_done"
         => /\ runs' \in {0, 1}
            /\ result'.ok
            /\ \A k \in 1..(Len(result'.val) - 1) :
                  result'.val[k].i < result'.val[k + 1].i
            /\ result'.val[1].t = thr'
            /\ runs' = 0 => (disk' = disk /\ \A k \in 1..num' : result'.val[k] = disk[k - 1])
            /\ CacheMismatch(num', thr')
                  => /\ runs' = 1
                     /\ \A i \in DOMAIN disk :
                           disk'[i] = IF i < num' THEN KeyShareFile(i, thr', num')
                                      ELSE MissingFile]_vars

\* a call that used the cache
C26_CacheUsedReached ==
    /\ pc = "dkg_done" /\ runs = 0 /\ result.ok /\ num = MaxDkgParties


(***************************************************************************)
(* Claims checked on scenario 13 (SpecRefresh).                            *)
(***************************************************************************)
\* the party set of a map of key shares
PartySet(shares) == {shares[k].i : k \in 1..Len(shares)}

\* C30 as stated: run_refresh_workflow runs the key-refresh protocol
\* exactly once and then writes the cache when force_refresh is set or the
\* cache file is missing or unparsable, and runs it zero times, leaving
\* the cache file unchanged, when a parsable cache exists and force_refresh
\* is false; in that cached case the returned shares are those of the
\* cache with no check that their party set matches the input shares.
C30_OneRunThenCacheWritten ==
    [][pc' = "rf_done"
         => IF disk.kind = "cache" /\ ~force_refresh'
            THEN runs' = 0 /\ disk' = disk /\ result' = Ok(disk.shares)
            ELSE /\ runs' = 1
                 /\ disk'.kind = "cache"
                 /\ PartySet(disk'.shares) = PartySet(recs')]_vars

\* C30 (amended): when force_refresh is set or the cache file is missing or
\* unparsable, run_refresh_workflow runs the key-refresh protocol exactly
\* once, and a call that returns Ok has written the shares it returns to
\* the cache, while a call that fails (the protocol run, a conversion or
\* the write) returns the error; when a parsable cache exists
\* and force_refresh is false it runs the protocol zero times, leaves the
\* cache file unchanged and returns the shares of the cache with no check
\* that their party set matches the input shares.
C30_OneRunAndCacheWrittenOnSuccess ==
    [][pc' = "rf_done"
         => IF disk.kind = "cache" /\ ~force_refresh'
            THEN runs' = 0 /\ disk' = disk /\ result' = Ok(disk.shares)
            ELSE /\ runs' = 1
                 /\ result'.ok => /\ disk' = CacheOf(result'.val)
                                   /\ PartySet(result'.val) = PartySet(recs')]_vars

\* a cached call whose returned party set is not that of the input shares
C30_Witness ==
    /\ pc = "rf_done" /\ runs = 0 /\ ~force_refresh /\ result.ok
    /\ disk.kind = "cache" /\ result.val = disk.shares
    /\ PartySet(result.val) # PartySet(recs)

\* a forced call on a parsable cache that ran the protocol and rewrote it
C30_ForcedReached ==
    /\ pc = "rf_done" /\ runs = 1 /\ force_refresh /\ result.ok
    /\ disk = CacheOf(result.val) /\ PartySet(result.val) = PartySet(recs)

\* a call whose protocol run failed
C30_FailedReached ==
    /\ pc = "rf_done" /\ runs = 1 /\ ~result.ok /\ disk.kind # "cache"

====
